---- MODULE Spec2Model ----
(***************************************************************************)
(* Adapter sandbox runtime of civic-mcp: the capability API in its three   *)
(* backends (extension content script, Playwright test harness, standalone *)
(* MCP server), the human-in-the-loop coordinator, scoped storage, tool    *)
(* namespacing and dispatch.                                               *)
(*                                                                         *)
(* Strings are sequences of one-character strings, so that concatenation,  *)
(* split and prefix tests are computed, not assumed.  Time is a clock of   *)
(* TickMs-millisecond ticks.  Every `await` of the source is a point where *)
(* other handlers may run and the clock may advance.                       *)
(***************************************************************************)
EXTENDS Integers, Sequences, FiniteSets, TLC

VARIABLES
    \* ---- clock (Date.now())
    now,
    \* ---- extension: chrome.storage.local['civic-mcp:human-required']
    hstore,       \* NoRecord or [requestId, status]
    nextId,       \* next crypto.randomUUID() value
    wpc,          \* per tab: position inside waitForHuman
    wreq,         \* per tab: const requestId
    wtimeout,     \* per tab: const timeout
    wdeadline,    \* per tab: const deadline
    wwake,        \* per tab: time the pending sleep(500) is due
    wsnap,        \* per tab: const req (result of the last storage get)
    \* ---- extension popup (React state of Popup)
    popOpen,      \* popup mounted, onChanged listener registered
    humanRequest, \* useState<HumanRequest | null>
    popEvents,    \* chrome.storage.onChanged events not yet delivered
    completedAt,  \* history: per requestId, when markHumanDone wrote it
    \* ---- Node backends: one tool invocation that may call waitForHuman
    cmode,        \* backend and mode the invocation runs in
    cpc,          \* position inside execute / waitForHuman
    ctimeout,     \* opts.timeout handed to waitForHuman
    cstart,       \* history: when waitForHuman was called, else Never
    cacked,       \* history: a human acknowledged (Enter or POST /done)
    cresult,      \* what left tool.execute: a returned result or an exception
    rlOpen,       \* readline question outstanding
    httpListening,    \* throwaway http server accepts connections
    httpTimerArmed,   \* setTimeout(..., timeoutMs) not yet fired or cleared
    httpTimerAt,      \* when that timer is due
    httpSettled,      \* state of the promise of waitForHumanViaHttp
    httpClosePending, \* server 'close' event emitted but not yet handled
    httpServed,       \* the prompt page has been served to a GET
    \* ---- navigate() under one backend
    navBackend,   \* the backend this page API belongs to
    domains,      \* manifest.domains, the allow-list
    navPc,        \* position inside navigate
    navUrl,       \* the url argument of the current navigate call
    navWaitSel,   \* opts.waitForSelector was given
    pageUrl,      \* URL of the document the automation page shows
    domTouched,   \* the current navigate call has queried the DOM
    \* ---- context.storage under one backend
    stBackend,    \* the backend the storage API belongs to
    extStore,     \* chrome.storage.local: full key -> value
    srvFiles,     \* ~/.civic-mcp/storage: file name -> (key -> value)
    harnessMaps,  \* per harness (one adapter each): Map key -> value
    stLast,       \* the last storage call and how it ended
    \* ---- tool registration
    regBackend,   \* the runtime that registers the tools
    regAdapters,  \* server: the adapters loadAdapters has collected
    regTools,     \* server: the flattened tool list (index.ts `tools`)
    loadPc,       \* server bootstrap: "loading" or "serving"
    extRegistered, \* extension: the registerTool calls made so far
    \* ---- server: tools/call requests
    browser,      \* index.ts `browser`: 0 is undefined, n the n-th launch
    launches,     \* chromium.launch calls that have resolved
    callPc,       \* where each request's handler is
    callName,     \* request.params.name
    callFound,    \* index into regTools of `found`, 0 before it is set
    callBrowser,  \* the handler's `b`
    callCtx,      \* the handler's browser context: none / open / closed
    callPage,     \* the handler's page: none / open / closed
    callInvoked,  \* found.tool.execute has been called
    callOutcome,  \* how execute settled
    callResponse, \* what the handler returned
    \* ---- coerceOutput applied to one text
    coRaw,        \* the raw text handed to coerceOutput
    coType,       \* the declared output type
    coResult,     \* what coerceOutput returned, or Pending
    \* ---- extension: one invocation of a declarative tool
    dTool,        \* the DeclarativeTool being interpreted
    dParams,      \* the params object of the invocation
    dPc,          \* position inside registerDeclarativeTool's execute
    dIdx,         \* index of the input the fill loop is at
    dFilled,      \* el.value of every input field
    dDom,         \* history: what the output selectors matched when read
    dLog,         \* history: the page operations completed, in order
    dResult,      \* what execute returned
    \* ---- tool invocation through one entry point
    invBackend,   \* the entry point tools are invoked through
    invModule,    \* the shape of the adapter module's default export
    invArgs,      \* per call: the arguments object the caller sends
    invOps,       \* per call: the tool has issued a page operation
    harnessBrowser,\* harness.ts `browser`: 0 is undefined
    harnessLaunches,\* harness: chromium.launch calls resolved
    playwrightPage,\* harness.ts `playwrightPage`: 0 is undefined
    harnessContext,\* harness.ts `context`: the page it wraps, 0 undefined
    harnessAdapter,\* harness.ts `adapter`: loaded or not
    tPc,          \* harness, per call: position inside testTool
    tName,        \* harness, per call: toolName
    tCtx,         \* harness, per call: the context handed to execute
    tOutcome,     \* harness, per call: how tool.execute settled
    tResult,      \* harness, per call: what testTool's promise gave
    xLoad,        \* extension: how loadJavaScriptPlugin ended
    xTools,       \* extension: names registered with registerTool
    xPc,          \* extension, per call: position inside the wrapper
    xOutcome,     \* extension, per call: how tool.execute settled
    xResult,      \* extension, per call: what the wrapper returned
    \* ---- storage.set calls that overlap in time
    qPc,          \* per call: position inside storage.set
    qKey,         \* per call: the key argument
    qValue,       \* per call: the value argument
    qUsed,        \* extension, per call: usedBytes of the snapshot it read
    qStore,       \* server, per call: the store object readStore returned
    qThrew,       \* per call: set threw the quota error
    qRaced,       \* history: a write was applied while another call held a snapshot
    \* ---- one call sequence applied to two storage backends
    eqExt,        \* what the extension backend answered to the last call
    eqSrv,        \* what the server backend answered to the same call
    \* ---- the adapter's init
    initCalls,    \* adapter.init(context) calls made
    initDone,     \* adapter.init(context) calls that have completed
    \* ---- a tool that caches its results in storage
    kTool,        \* the caching tool under call
    kStore,       \* context.storage: cache key -> entry
    kHours,       \* Date.now(), in hours
    kLast,        \* history: the last call and how it was answered
    \* ---- capability calls on the automation page
    pLast,        \* history: the last capability call and the URL of the page it acted on
    pAlive        \* the adapter's runtime exists for the current document

humanVars == <<hstore, nextId, wpc, wreq, wtimeout, wdeadline, wwake, wsnap,
               popOpen, humanRequest, popEvents, completedAt>>

waitVars == <<cmode, cpc, ctimeout, cstart, cacked, cresult, rlOpen,
              httpListening, httpTimerArmed, httpTimerAt, httpSettled,
              httpClosePending, httpServed>>

navVars == <<navBackend, domains, navPc, navUrl, navWaitSel, pageUrl,
             domTouched>>

storageVars == <<stBackend, extStore, srvFiles, harnessMaps, stLast>>
regVars == <<regBackend, regAdapters, regTools, loadPc, extRegistered>>
callVars == <<browser, launches, callPc, callName, callFound, callBrowser,
              callCtx, callPage, callInvoked, callOutcome, callResponse>>
coerceVars == <<coRaw, coType, coResult>>
declVars == <<dTool, dParams, dPc, dIdx, dFilled, dDom, dLog, dResult>>
invVars == <<invBackend, invModule, invArgs, invOps, harnessBrowser, harnessLaunches, playwrightPage, harnessContext, harnessAdapter, tPc, tName, tCtx, tOutcome, tResult, xLoad, xTools, xPc, xOutcome, xResult>>
raceVars == <<qPc, qKey, qValue, qUsed, qStore, qThrew, qRaced>>
equivVars == <<eqExt, eqSrv>>
initVars == <<initCalls, initDone>>
cacheVars == <<kTool, kStore, kHours, kLast>>
pageOpVars == <<pLast, pAlive>>

\* everything the extension human-in-the-loop handlers leave alone
notHuman == <<waitVars, navVars, storageVars, regVars, callVars, coerceVars, declVars, invVars, raceVars, equivVars, initVars, cacheVars, pageOpVars>>

\* everything a Node-backend tool invocation leaves alone
notWait == <<humanVars, navVars, storageVars, regVars, callVars, coerceVars, declVars, invVars, raceVars, equivVars, initVars, cacheVars, pageOpVars>>

\* everything navigate leaves alone
notNav == <<now, humanVars, waitVars, storageVars, regVars, callVars, coerceVars, declVars, invVars, raceVars, equivVars, initVars, cacheVars, pageOpVars>>

\* everything the storage API leaves alone
notStorage == <<now, humanVars, waitVars, navVars, regVars, callVars, coerceVars, declVars, invVars, raceVars, equivVars, initVars, cacheVars, pageOpVars>>

\* everything tool registration leaves alone
notReg == <<now, humanVars, waitVars, navVars, storageVars, callVars, coerceVars, declVars, invVars, raceVars, equivVars, initVars, cacheVars, pageOpVars>>

\* everything a tools/call handler leaves alone
notCall == <<now, humanVars, waitVars, navVars, storageVars, regVars, coerceVars, declVars, invVars, raceVars, equivVars, initVars, cacheVars, pageOpVars>>

\* everything coerceOutput leaves alone
notCoerce == <<now, humanVars, waitVars, navVars, storageVars, regVars, callVars, declVars, invVars, raceVars, equivVars, initVars, cacheVars, pageOpVars>>

\* everything the declarative interpreter leaves alone
notDecl == <<now, humanVars, waitVars, navVars, storageVars, regVars, callVars, coerceVars, invVars, raceVars, equivVars, initVars, cacheVars, pageOpVars>>

\* everything the harness and the extension's tool wrapper leave alone
notInvoke == <<now, humanVars, waitVars, navVars, storageVars, regVars, callVars, coerceVars, declVars, raceVars, equivVars, initVars, cacheVars, pageOpVars>>

\* what an overlapping storage.set leaves alone: all but the stores and its own state
notRaceStorage == <<now, humanVars, waitVars, navVars, regVars, callVars, coerceVars, declVars, invVars, equivVars, initVars, cacheVars, pageOpVars>>

\* everything an overlapping storage.set leaves alone besides the stores
notRace == <<now, humanVars, waitVars, navVars, storageVars, regVars, callVars, coerceVars, declVars, invVars, equivVars, initVars, cacheVars, pageOpVars>>

\* what the side-by-side storage calls leave alone: all but the stores and their answers
notEquivStorage == <<now, humanVars, waitVars, navVars, regVars, callVars, coerceVars, declVars, invVars, raceVars, initVars, cacheVars, pageOpVars>>

\* everything the side-by-side storage calls leave alone besides the stores
notEquiv == <<now, humanVars, waitVars, navVars, storageVars, regVars, callVars, coerceVars, declVars, invVars, raceVars, initVars, cacheVars, pageOpVars>>

\* what loading an adapter leaves alone: all but the invocation state and init
notInvokeInit == <<now, humanVars, waitVars, navVars, storageVars, regVars, callVars, coerceVars, declVars, raceVars, equivVars, cacheVars, pageOpVars>>

\* everything the adapter's init leaves alone
notInit == <<now, humanVars, waitVars, navVars, storageVars, regVars, callVars, coerceVars, declVars, invVars, raceVars, equivVars, cacheVars, pageOpVars>>

\* everything a caching tool leaves alone
notCache == <<now, humanVars, waitVars, navVars, storageVars, regVars, callVars, coerceVars, declVars, invVars, raceVars, equivVars, initVars, pageOpVars>>

\* what a capability call leaves alone: all but the page and its own record
notPageNav == <<now, humanVars, waitVars, storageVars, regVars, callVars, coerceVars, declVars, invVars, raceVars, equivVars, initVars, cacheVars>>

\* everything a capability call leaves alone
notPageOp == <<now, humanVars, waitVars, navVars, storageVars, regVars, callVars, coerceVars, declVars, invVars, raceVars, equivVars, initVars, cacheVars>>

vars == <<now, humanVars, waitVars, navVars, storageVars, regVars, callVars, coerceVars, declVars, invVars, raceVars, equivVars, initVars, cacheVars, pageOpVars>>

\* ------------------------------------------------------------------ bounds
TickMs == 250          \* milliseconds per clock tick
MaxTime == 4           \* the clock stops after this many ticks
MaxTimeoutTicks == 3   \* caller-supplied timeouts are 1..MaxTimeoutTicks ticks
MaxReq == 2            \* waitForHuman calls made in one behaviour

\* --------------------------------------------------------------- constants
SleepMs == 500         \* await sleep(500) in the polling loop
PollTicks == SleepMs \div TickMs

Tabs == {"tab1", "tab2"}
NoRecord == [requestId |-> 0, status |-> "absent"]
Never == 0 - 1

HumanRecord(id, st) == [requestId |-> id, status |-> st]

\* chrome.storage.onChanged is delivered to the popup only while it is mounted
Notify(q, newValue) == IF popOpen THEN Append(q, newValue) ELSE q

\* ------------------------------------------------ extension waitForHuman
\* lines 147-155: fresh id, publish the pending request, overwriting whatever
\* record is stored under the shared key
waitForHuman_publish(t, timeout) ==
    /\ wpc[t] \in {"idle", "resolved", "timedout"}
    /\ nextId <= MaxReq
    /\ wreq' = [wreq EXCEPT ![t] = nextId]
    /\ nextId' = nextId + 1
    /\ wtimeout' = [wtimeout EXCEPT ![t] = timeout]
    /\ hstore' = HumanRecord(nextId, "pending")
    /\ popEvents' = Notify(popEvents, HumanRecord(nextId, "pending"))
    /\ wpc' = [wpc EXCEPT ![t] = "published"]
    /\ wsnap' = [wsnap EXCEPT ![t] = NoRecord]
    /\ wdeadline' = [wdeadline EXCEPT ![t] = 0]
    /\ wwake' = [wwake EXCEPT ![t] = 0]
    /\ UNCHANGED <<now, notHuman, popOpen, humanRequest, completedAt>>

\* storage.local.remove(storageKey): fires onChanged only if the key existed
RemoveHumanRecord ==
    /\ hstore' = NoRecord
    /\ popEvents' = IF hstore # NoRecord THEN Notify(popEvents, NoRecord)
                    ELSE popEvents

\* lines 169-170: remove the record and throw the timeout error
waitForHuman_timeout(t) ==
    /\ RemoveHumanRecord
    /\ wpc' = [wpc EXCEPT ![t] = "timedout"]
    /\ UNCHANGED wwake

\* line 159: while (Date.now() < deadline) { await sleep(500); ...
waitForHuman_loopTest(t, deadline) ==
    IF now < deadline
    THEN /\ wpc' = [wpc EXCEPT ![t] = "sleeping"]
         /\ wwake' = [wwake EXCEPT ![t] = now + PollTicks]
         /\ UNCHANGED <<hstore, popEvents>>
    ELSE waitForHuman_timeout(t)

\* line 158: the set has been awaited; compute the deadline, enter the loop
waitForHuman_begin(t) ==
    /\ wpc[t] = "published"
    /\ wdeadline' = [wdeadline EXCEPT ![t] = now + wtimeout[t]]
    /\ waitForHuman_loopTest(t, now + wtimeout[t])
    /\ UNCHANGED <<now, notHuman, nextId, wreq, wtimeout, wsnap, popOpen,
                   humanRequest, completedAt>>

\* lines 160-161: the timer fires (never early, possibly late) and the
\* storage get takes its snapshot
waitForHuman_get(t) ==
    /\ wpc[t] = "sleeping"
    /\ now >= wwake[t]
    /\ wsnap' = [wsnap EXCEPT ![t] = hstore]
    /\ wpc' = [wpc EXCEPT ![t] = "polled"]
    /\ UNCHANGED <<now, notHuman, hstore, nextId, wreq, wtimeout, wdeadline, wwake,
                   popOpen, humanRequest, popEvents, completedAt>>

\* line 163: the condition under which the poll ends the wait normally
PollResolves(req, requestId) ==
    \/ req = NoRecord
    \/ req.requestId # requestId
    \/ req.status = "completed"

\* lines 162-167: the get has been awaited; test the snapshot, else loop
waitForHuman_resume(t) ==
    /\ wpc[t] = "polled"
    /\ IF PollResolves(wsnap[t], wreq[t])
       THEN /\ RemoveHumanRecord
            /\ wpc' = [wpc EXCEPT ![t] = "resolved"]
            /\ UNCHANGED wwake
       ELSE waitForHuman_loopTest(t, wdeadline[t])
    /\ UNCHANGED <<now, notHuman, nextId, wreq, wtimeout, wdeadline, wsnap,
                   popOpen, humanRequest, completedAt>>

\* ------------------------------------------------------- extension popup
\* popup.tsx 266-272: on mount, checkPending reads the shared record
checkPending ==
    /\ ~popOpen
    /\ popOpen' = TRUE
    /\ humanRequest' = IF hstore # NoRecord /\ hstore.status = "pending"
                       THEN hstore ELSE NoRecord
    /\ popEvents' = <<>>
    /\ UNCHANGED <<now, notHuman, hstore, nextId, wpc, wreq, wtimeout, wdeadline, wwake,
                   wsnap, completedAt>>

\* popup.tsx 274-279: one onChanged event is delivered
onStorageChanged ==
    /\ popOpen
    /\ popEvents # <<>>
    /\ LET next == Head(popEvents) IN
       humanRequest' = IF next # NoRecord /\ next.status = "pending"
                       THEN next ELSE NoRecord
    /\ popEvents' = Tail(popEvents)
    /\ UNCHANGED <<now, notHuman, hstore, nextId, wpc, wreq, wtimeout, wdeadline, wwake,
                   wsnap, popOpen, completedAt>>

\* popup.tsx 284-290: the "done" button writes the popup's copy of the
\* request back with status completed
markHumanDone ==
    /\ popOpen
    /\ humanRequest # NoRecord
    /\ hstore' = [humanRequest EXCEPT !.status = "completed"]
    /\ popEvents' = Notify(popEvents,
                           [humanRequest EXCEPT !.status = "completed"])
    /\ humanRequest' = NoRecord
    /\ completedAt' = [completedAt EXCEPT ![humanRequest.requestId] = now]
    /\ UNCHANGED <<now, notHuman, nextId, wpc, wreq, wtimeout, wdeadline, wwake, wsnap, popOpen>>

\* popup.tsx 281: the popup is closed, its listener and state are dropped
popupClose ==
    /\ popOpen
    /\ popOpen' = FALSE
    /\ humanRequest' = NoRecord
    /\ popEvents' = <<>>
    /\ UNCHANGED <<now, notHuman, hstore, nextId, wpc, wreq, wtimeout, wdeadline, wwake,
                   wsnap, completedAt>>

\* ------------------------------------- Node backends: initial values
NoResult == [kind |-> "none", success |-> FALSE, code |-> "none"]

WaitIdle ==
    /\ cpc = "idle"
    /\ cmode = "none"
    /\ ctimeout = 0
    /\ cstart = Never
    /\ cacked = FALSE
    /\ cresult = NoResult
    /\ rlOpen = FALSE
    /\ httpListening = FALSE
    /\ httpTimerArmed = FALSE
    /\ httpTimerAt = 0
    /\ httpSettled = "none"
    /\ httpClosePending = FALSE
    /\ httpServed = FALSE

\* ---------------------------------------------- navigate: initial values
BadUrl == [hostname |-> <<>>, pathname |-> <<>>, parses |-> FALSE]
Blank == [hostname |-> <<"about:blank">>, pathname |-> <<>>, parses |-> TRUE]
Backends == {"extension", "harness", "server"}

NavIdle ==
    /\ navBackend = "extension"
    /\ domains = {}
    /\ navPc = "idle"
    /\ navUrl = Blank
    /\ navWaitSel = FALSE
    /\ pageUrl = Blank
    /\ domTouched = FALSE

\* ----------------------------------------------- storage: initial values
NumKeys == 2           \* distinct keys an adapter uses

\* a stored value is a string of `chars` ASCII letters; Absent is no value
Absent == [chars |-> 0 - 1]

PluginIds == {<<"gov.a.one">>, <<"gov.a.two">>}

\* ids the manifest validator rejects (part_016 20) but the loaders, which
\* do not call it, install all the same
UnvalidatedIds == {<<"gov.a.one", ":", "x">>, <<"gov.a.one", "_", "x">>}
InstallableIds == PluginIds \cup UnvalidatedIds
KeyNames == <<"k1", "k2", "k3", "k4">>
Keys == {<<KeyNames[i]>> : i \in 1..NumKeys}

\* part_015 10-12
pluginStorageKey(pluginId, key) ==
    <<"civic-mcp:plugin:">> \o pluginId \o <<":">> \o key

\* mcp-server sandbox.ts 47-51: the id with every character outside
\* [a-zA-Z0-9.-] replaced by "_", as the file's base name
storageFile(adapterId) ==
    [i \in 1..Len(adapterId) |->
        IF adapterId[i] \in {":", "/", "_"} THEN "_" ELSE adapterId[i]]
    \o <<".json">>

FullKeys == {pluginStorageKey(pl, k) : pl \in InstallableIds, k \in Keys}
FileNames == {storageFile(pl) : pl \in InstallableIds}
EmptyMap == [k \in Keys |-> Absent]
NoCall == [op |-> "none", plugin |-> <<>>, key |-> <<>>, value |-> Absent,
           threw |-> FALSE, usedBefore |-> 0, changed |-> FALSE]

StorageIdle ==
    /\ stBackend = "extension"
    /\ extStore = [f \in FullKeys |-> Absent]
    /\ srvFiles = [f \in FileNames |-> EmptyMap]
    /\ harnessMaps = [pl \in InstallableIds |-> EmptyMap]
    /\ stLast = NoCall

\* ------------------------------------------ registration: initial values
MaxCalls == 2          \* tools/call requests in flight

Calls == 1..MaxCalls
NoResponse == [isError |-> FALSE, text |-> <<>>]

\* nothing loaded or registered yet
RegIdle ==
    /\ regBackend = "server"
    /\ regAdapters = <<>>
    /\ regTools = <<>>
    /\ loadPc = "loading"
    /\ extRegistered = <<>>

\* no browser launched, no request received
CallIdle ==
    /\ browser = 0
    /\ launches = 0
    /\ callPc = [r \in Calls |-> "idle"]
    /\ callName = [r \in Calls |-> <<>>]
    /\ callFound = [r \in Calls |-> 0]
    /\ callBrowser = [r \in Calls |-> 0]
    /\ callCtx = [r \in Calls |-> "none"]
    /\ callPage = [r \in Calls |-> "none"]
    /\ callInvoked = [r \in Calls |-> FALSE]
    /\ callOutcome = [r \in Calls |-> "none"]
    /\ callResponse = [r \in Calls |-> NoResponse]


\* --------------------------------------------- coerceOutput: initial values
\* a JavaScript string or null: what textContent?.trim() / getAttribute give
RawNull == [null |-> TRUE, s |-> <<>>]
Raw(chars) == [null |-> FALSE, s |-> chars]

\* JavaScript values a tool result carries
JsNull == [kind |-> "null", n |-> 0, s |-> <<>>]
JsNumber(n) == [kind |-> "number", n |-> n, s |-> <<>>]
JsBoolean(b) == [kind |-> "boolean", n |-> IF b THEN 1 ELSE 0, s |-> <<>>]
JsString(chars) == [kind |-> "string", n |-> 0, s |-> chars]
Pending == [kind |-> "pending", n |-> 0, s |-> <<>>]

CoerceIdle ==
    /\ coRaw = RawNull
    /\ coType = "text"
    /\ coResult = Pending


\* -------------------------------------- declarative tool: initial values
JsUndefined == [kind |-> "undefined", n |-> 0, s |-> <<>>]

\* the parameters the tool declares (Object.entries order) and their fields
DeclaredParams == <<"p1", "p2">>
InputSelectors == <<"#in1", "#in2">>
\* the keys of the params object: the declared ones and one more
ArgNames == {"p1", "p2", "extra"}
\* the output fields the tool declares (Object.entries order)
OutputKeys == <<"o1", "o2">>

NoTool == [url |-> Blank, waitForSelector |-> FALSE, clickFirst |-> FALSE,
           inputs |-> <<>>, submitWait |-> FALSE, output |-> <<>>]
NoToolResult == [kind |-> "none", success |-> FALSE, code |-> "none",
                 data |-> <<>>]

DeclIdle ==
    /\ dTool = NoTool
    /\ dParams = [a \in ArgNames |-> JsUndefined]
    /\ dPc = "idle"
    /\ dIdx = 0
    /\ dFilled = [i \in DOMAIN InputSelectors |-> JsUndefined]
    /\ dDom = <<>>
    /\ dLog = <<>>
    /\ dResult = NoToolResult

\* everything the declarative interpreter's call of navigate leaves alone
notDeclNav == <<now, humanVars, waitVars, storageVars, regVars, callVars, coerceVars, invVars, raceVars, equivVars, initVars, cacheVars, pageOpVars>>


\* ---------------------------------------- tool invocation: initial values
\* what a module's default export looks like to the loaders
NoModule == [isObject |-> FALSE, idIsString |-> FALSE, tools |-> "missing"]
ModuleShapes ==
    {NoModule} \cup
    {[isObject |-> TRUE, idIsString |-> b, tools |-> t] :
        b \in BOOLEAN, t \in {"missing", "empty", "some"}}

\* module.tools as a list of tool names
ModuleTools(module) == IF module.tools = "some" THEN <<"t">> ELSE <<>>

\* arguments for a tool whose inputSchema requires the number `income`
ValidArgs == [income |-> JsNumber(1)]
MissingArgs == [income |-> JsUndefined]
WrongTypeArgs == [income |-> JsString(<<"x">>)]
ArgSets == {ValidArgs, MissingArgs, WrongTypeArgs}

InvokeIdle ==
    /\ invBackend = "none"
    /\ invModule = NoModule
    /\ invArgs = [r \in Calls |-> ValidArgs]
    /\ invOps = [r \in Calls |-> FALSE]
    /\ harnessBrowser = 0
    /\ harnessLaunches = 0
    /\ playwrightPage = 0
    /\ harnessContext = 0
    /\ harnessAdapter = FALSE
    /\ tPc = [r \in Calls |-> "idle"]
    /\ tName = [r \in Calls |-> ""]
    /\ tCtx = [r \in Calls |-> 0]
    /\ tOutcome = [r \in Calls |-> "none"]
    /\ tResult = [r \in Calls |-> NoToolResult]
    /\ xLoad = "none"
    /\ xTools = <<>>
    /\ xPc = [r \in Calls |-> "idle"]
    /\ xOutcome = [r \in Calls |-> "none"]
    /\ xResult = [r \in Calls |-> NoToolResult]



\* ------------------------------------ overlapping set: initial values
RaceIdle ==
    /\ qPc = [r \in Calls |-> "idle"]
    /\ qKey = [r \in Calls |-> <<>>]
    /\ qValue = [r \in Calls |-> Absent]
    /\ qUsed = [r \in Calls |-> 0]
    /\ qStore = [r \in Calls |-> EmptyMap]
    /\ qThrew = [r \in Calls |-> FALSE]
    /\ qRaced = FALSE


\* ------------------------------ storage side by side: initial values
\* what a storage call gives its caller: the value returned (Absent is
\* null or void) or the quota error thrown
Observation(op, threw, ret) == [op |-> op, threw |-> threw, ret |-> ret]
NoObservation == Observation("none", FALSE, Absent)

EquivIdle ==
    /\ eqExt = NoObservation
    /\ eqSrv = NoObservation


\* ------------------------------------------ adapter init: initial values
InitFnIdle ==
    /\ initCalls = 0
    /\ initDone = 0


\* ------------------------------------------- result cache: initial values
CacheIdle ==
    /\ kTool = "none"
    /\ kStore = <<>>
    /\ kHours = 0
    /\ kLast = <<>>


\* --------------------------------------- capability calls: initial values
NoPageOp == [op |-> "none", url |-> Blank]

PageOpIdle ==
    /\ pLast = NoPageOp
    /\ pAlive = TRUE

\* ------------------------------------------------------------------ clock
Tick ==
    /\ now < MaxTime
    /\ now' = now + 1
    /\ UNCHANGED <<humanVars, notHuman>>

\* ---------------------------------------------------- human specification
HumanIdle ==
    /\ hstore = NoRecord
    /\ nextId = 1
    /\ wpc = [t \in Tabs |-> "idle"]
    /\ wreq = [t \in Tabs |-> 0]
    /\ wtimeout = [t \in Tabs |-> 0]
    /\ wdeadline = [t \in Tabs |-> 0]
    /\ wwake = [t \in Tabs |-> 0]
    /\ wsnap = [t \in Tabs |-> NoRecord]
    /\ popOpen = FALSE
    /\ humanRequest = NoRecord
    /\ popEvents = <<>>
    /\ completedAt = [i \in 1..MaxReq |-> Never]

InitHuman ==
    /\ now = 0
    /\ HumanIdle
    /\ WaitIdle
    /\ NavIdle
    /\ StorageIdle
    /\ RegIdle
    /\ CallIdle
    /\ PageOpIdle
    /\ CacheIdle
    /\ InitFnIdle
    /\ EquivIdle
    /\ RaceIdle
    /\ InvokeIdle
    /\ DeclIdle
    /\ CoerceIdle

NextHuman ==
    \/ \E t \in Tabs, timeout \in 1..MaxTimeoutTicks :
           waitForHuman_publish(t, timeout)
    \/ \E t \in Tabs : waitForHuman_begin(t)
    \/ \E t \in Tabs : waitForHuman_get(t)
    \/ \E t \in Tabs : waitForHuman_resume(t)
    \/ checkPending
    \/ onStorageChanged
    \/ markHumanDone
    \/ popupClose
    \/ Tick

SpecHuman == InitHuman /\ [][NextHuman]_vars

\* ------------------------------------------------------------ claims C1-C3
\* C1: an extension waitForHuman call has returned normally only if its last
\* poll observed the shared record carrying the call's own requestId with
\* status 'completed'; a record with another requestId, or an absent record,
\* never resolves the call.
C1_ResolvedOnlyByOwnCompletedRecord ==
    \A t \in Tabs :
        wpc[t] = "resolved" =>
            /\ wsnap[t] # NoRecord
            /\ wsnap[t].requestId = wreq[t]
            /\ wsnap[t].status = "completed"

\* C2: every markHumanDone step writes status 'completed' onto the request
\* whose requestId is the one stored under the shared key at that moment: it
\* neither replaces a different request nor re-creates a removed record.
C2_MarkDoneOnlyOnStoredRequest ==
    [][markHumanDone =>
          (hstore # NoRecord /\ hstore.requestId = humanRequest.requestId)]_vars

\* C3: a waitForHuman call whose own request was marked completed strictly
\* before the call's deadline does not end with the timeout error.
C3_CompletedBeforeDeadlineNeverTimesOut ==
    \A t \in Tabs :
        wpc[t] = "timedout" =>
            ~(completedAt[wreq[t]] # Never /\ completedAt[wreq[t]] < wdeadline[t])

\* =================================================== Node backends ========
\* A tool invocation through harness.testTool or the server's tools/call that
\* runs start_retirement_application, the one tool that calls waitForHuman.
Modes == {"harnessHeadless", "harnessHeaded", "serverHeaded", "serverHeadless"}

\* errors a page step can throw, by what their message contains
PageErrors == {"selectorNotFound", "playwrightTimeout"}

\* adapter.ts 419: err.message.includes('not found')
MessageIncludesNotFound(err) == err = "selectorNotFound"

\* adapter.ts 416-421: the catch that wraps the whole body of execute
executeCatch(err) ==
    [kind |-> "returned", success |-> FALSE,
     code |-> IF MessageIncludesNotFound(err) THEN "SITE_CHANGED" ELSE "UNKNOWN"]

Threw(err) == [kind |-> "threw", success |-> FALSE, code |-> err]

ToolSuccess == [kind |-> "returned", success |-> TRUE, code |-> "none"]

\* harness.ts 160-171 (testTool) and index.ts 138-164 (tools/call): the tool
\* is found and execute is called with the backend's context
invokeTool(mode, timeout) ==
    /\ cpc \in {"idle", "done"}
    /\ ~httpListening /\ ~httpTimerArmed /\ ~httpClosePending
    /\ cmode' = mode
    /\ ctimeout' = timeout
    /\ cpc' = "filling"
    /\ cresult' = NoResult
    /\ cacked' = FALSE
    /\ cstart' = Never
    /\ httpSettled' = "none"
    /\ httpServed' = FALSE
    /\ UNCHANGED <<now, notWait, rlOpen, httpListening, httpTimerArmed,
                   httpTimerAt, httpClosePending>>

\* adapter.ts 303-354: navigate, fill the personal information; a page step
\* that throws lands in the catch of execute
execute_fill(outcome) ==
    /\ cpc = "filling"
    /\ IF outcome = "ok"
       THEN cpc' = "captcha" /\ UNCHANGED cresult
       ELSE cpc' = "done" /\ cresult' = executeCatch(outcome)
    /\ UNCHANGED <<now, notWait, cmode, ctimeout, cstart, cacked, rlOpen,
                   httpListening, httpTimerArmed, httpTimerAt, httpSettled,
                   httpClosePending, httpServed>>

\* harness.ts 266-271: headless harness, throw HumanRequiredError at once;
\* the exception is thrown inside the try block of execute
waitForHuman_harnessHeadless ==
    /\ cpc' = "done"
    /\ cresult' = executeCatch("HumanRequiredError")
    /\ UNCHANGED <<rlOpen, httpListening, httpTimerArmed, httpTimerAt>>

\* harness.ts 273-281 and sandbox.ts 177-186 (waitForHumanViaReadline):
\* ask the question on the terminal and wait for Enter
waitForHumanViaReadline ==
    /\ cpc' = "waiting"
    /\ rlOpen' = TRUE
    /\ UNCHANGED <<cresult, httpListening, httpTimerArmed, httpTimerAt>>

\* sandbox.ts 112-173 (waitForHumanViaHttp): create the server, listen, arm
\* the timer
waitForHumanViaHttp(timeoutMs) ==
    /\ cpc' = "waiting"
    /\ httpListening' = TRUE
    /\ httpTimerArmed' = TRUE
    /\ httpTimerAt' = now + timeoutMs
    /\ UNCHANGED <<cresult, rlOpen>>

\* adapter.ts 362-379: if the reCAPTCHA frame exists, call waitForHuman, which
\* dispatches on the backend and mode (harness.ts 266-282, sandbox.ts 271-280)
execute_captcha(hasCaptcha) ==
    /\ cpc = "captcha"
    /\ IF ~hasCaptcha
       THEN /\ cpc' = "submitting"
            /\ UNCHANGED <<cresult, rlOpen, httpListening, httpTimerArmed,
                           httpTimerAt, cstart>>
       ELSE /\ cstart' = now
            /\ CASE cmode = "harnessHeadless" -> waitForHuman_harnessHeadless
                 [] cmode \in {"harnessHeaded", "serverHeaded"} ->
                        waitForHumanViaReadline
                 [] OTHER -> waitForHumanViaHttp(ctimeout)
    /\ UNCHANGED <<now, notWait, cmode, ctimeout, cacked, httpSettled,
                   httpClosePending, httpServed>>

\* the operator presses Enter: rl.close(); resolve()
readline_enter ==
    /\ rlOpen
    /\ rlOpen' = FALSE
    /\ cacked' = TRUE
    /\ cpc' = "submitting"
    /\ UNCHANGED <<now, notWait, cmode, ctimeout, cstart, cresult,
                   httpListening, httpTimerArmed, httpTimerAt, httpSettled,
                   httpClosePending, httpServed>>

\* sandbox.ts 123-155: any other request is answered with the prompt page
http_get ==
    /\ httpListening
    /\ ~httpServed
    /\ httpServed' = TRUE
    /\ UNCHANGED <<now, notWait, cmode, cpc, ctimeout, cstart, cacked, cresult,
                   rlOpen, httpListening, httpTimerArmed, httpTimerAt,
                   httpSettled, httpClosePending>>

\* sandbox.ts 115-121 with resolve() settling the promise again
http_post_done_resettle ==
    /\ httpListening \/ httpClosePending
    /\ httpListening' = FALSE
    /\ httpClosePending' = TRUE
    /\ httpSettled' = "resolved"
    /\ cacked' = TRUE
    /\ UNCHANGED <<now, notWait, cmode, cpc, ctimeout, cstart, cresult, rlOpen,
                   httpTimerArmed, httpTimerAt, httpServed>>

\* sandbox.ts 115-121: POST /done: server.close(); resolve(). The request
\* arrives while the server listens, or on a connection that was open when
\* server.close() was called and has not ended yet ('close' not yet emitted)
http_post_done ==
    /\ httpListening \/ httpClosePending
    /\ httpListening' = FALSE
    /\ httpClosePending' = TRUE
    /\ httpSettled' = IF httpSettled = "none" THEN "resolved" ELSE httpSettled
    /\ cacked' = TRUE
    /\ UNCHANGED <<now, notWait, cmode, cpc, ctimeout, cstart, cresult, rlOpen,
                   httpTimerArmed, httpTimerAt, httpServed>>

\* sandbox.ts 167-170: the timer fires: server.close(); reject(timeout error)
http_timer ==
    /\ httpTimerArmed
    /\ now >= httpTimerAt
    /\ httpTimerArmed' = FALSE
    /\ httpListening' = FALSE
    /\ httpClosePending' = (httpClosePending \/ httpListening)
    /\ httpSettled' = IF httpSettled = "none" THEN "rejected" ELSE httpSettled
    /\ UNCHANGED <<now, notWait, cmode, cpc, ctimeout, cstart, cacked, cresult,
                   rlOpen, httpTimerAt, httpServed>>

\* sandbox.ts 172: server.on('close', () => clearTimeout(timer))
http_close_event ==
    /\ httpClosePending
    /\ httpClosePending' = FALSE
    /\ httpTimerArmed' = FALSE
    /\ UNCHANGED <<now, notWait, cmode, cpc, ctimeout, cstart, cacked, cresult,
                   rlOpen, httpListening, httpTimerAt, httpSettled, httpServed>>

\* the promise of waitForHumanViaHttp has settled and execute continues: on,
\* to the submit step, or into its catch with the timeout error
waitForHuman_settled ==
    /\ cpc = "waiting"
    /\ cmode = "serverHeadless"
    /\ httpSettled # "none"
    /\ IF httpSettled = "resolved"
       THEN cpc' = "submitting" /\ UNCHANGED cresult
       ELSE cpc' = "done" /\ cresult' = executeCatch("waitForHumanTimeout")
    /\ UNCHANGED <<now, notWait, cmode, ctimeout, cstart, cacked, rlOpen,
                   httpListening, httpTimerArmed, httpTimerAt, httpSettled,
                   httpClosePending, httpServed>>

\* adapter.ts 382-414: submit, read the confirmation, return success
execute_submit(outcome) ==
    /\ cpc = "submitting"
    /\ cpc' = "done"
    /\ cresult' = IF outcome = "ok" THEN ToolSuccess ELSE executeCatch(outcome)
    /\ UNCHANGED <<now, notWait, cmode, ctimeout, cstart, cacked, rlOpen,
                   httpListening, httpTimerArmed, httpTimerAt, httpSettled,
                   httpClosePending, httpServed>>

\* the clock of the Node process: a due timer runs before more time passes
TickNode ==
    /\ now < MaxTime
    /\ httpTimerArmed => now < httpTimerAt
    /\ now' = now + 1
    /\ UNCHANGED <<humanVars, notHuman>>

InitWait ==
    /\ now = 0
    /\ HumanIdle
    /\ WaitIdle
    /\ NavIdle
    /\ StorageIdle
    /\ RegIdle
    /\ CallIdle
    /\ PageOpIdle
    /\ CacheIdle
    /\ InitFnIdle
    /\ EquivIdle
    /\ RaceIdle
    /\ InvokeIdle
    /\ DeclIdle
    /\ CoerceIdle

NextWait ==
    \/ \E mode \in Modes, timeout \in 1..MaxTimeoutTicks :
           invokeTool(mode, timeout)
    \/ \E outcome \in {"ok"} \cup PageErrors : execute_fill(outcome)
    \/ \E hasCaptcha \in BOOLEAN : execute_captcha(hasCaptcha)
    \/ readline_enter
    \/ http_get
    \/ http_post_done
    \/ http_timer
    \/ http_close_event
    \/ waitForHuman_settled
    \/ \E outcome \in {"ok"} \cup PageErrors : execute_submit(outcome)
    \/ TickNode

SpecWait == InitWait /\ [][NextWait]_vars

\* ------------------------------------------------------------ claims C4-C5
\* the invocation is suspended inside waitForHuman
Blocked ==
    /\ cpc = "waiting"
    /\ cmode = "serverHeadless" => httpSettled = "none"

\* C4: in every mode a waitForHuman call that nobody acknowledged is no
\* longer blocked once its timeout has elapsed.
C4_UnacknowledgedWaitEndsAtTimeout ==
    (Blocked /\ ~cacked) => now <= cstart + ctimeout

\* C5: when start_retirement_application run through harness.testTool in
\* headless mode has called waitForHuman, testTool rejects with
\* HumanRequiredError instead of returning a result.
C5_HeadlessHarnessRejectsWithHumanRequiredError ==
    (cmode = "harnessHeadless" /\ cpc = "done" /\ cstart # Never) =>
        cresult = Threw("HumanRequiredError")

\* ========================================================= navigate ======
MaxPathLen == 2        \* characters in a URL path or an entry's path prefix
MaxDomains == 2        \* entries in manifest.domains

HostNames == {<<"a.gov">>, <<"b.gov">>}
PathChars == {"/", "p"}

RECURSIVE StringsUpTo(_, _)
StringsUpTo(chars, n) ==
    IF n = 0 THEN {<<>>}
    ELSE LET shorter == StringsUpTo(chars, n - 1) IN
         shorter \cup {Append(x, c) : x \in shorter, c \in chars}

\* pathnames of parsed URLs: always start with "/"
Paths == {<<"/">> \o x : x \in StringsUpTo(PathChars, MaxPathLen - 1)}

\* allow-list entries: a bare host, or a host followed by "/" and anything
\* (DOMAIN_RE of the manifest validator)
DomainEntries ==
    HostNames \cup {h \o p : h \in HostNames, p \in Paths}

\* url arguments: strings `new URL` rejects, and strings it parses
Urls ==
    {BadUrl} \cup
    {[hostname |-> h, pathname |-> p, parses |-> TRUE] : h \in HostNames,
                                                          p \in Paths}

\* String.prototype.split('/')
RECURSIVE SplitFrom(_, _, _)
SplitFrom(s, i, current) ==
    IF i > Len(s) THEN <<current>>
    ELSE IF s[i] = "/" THEN <<current>> \o SplitFrom(s, i + 1, <<>>)
    ELSE SplitFrom(s, i + 1, Append(current, s[i]))

split(s) == SplitFrom(s, 1, <<>>)

\* Array.prototype.join('/')
RECURSIVE join(_)
join(parts) ==
    IF Len(parts) = 0 THEN <<>>
    ELSE IF Len(parts) = 1 THEN parts[1]
    ELSE parts[1] \o <<"/">> \o join(Tail(parts))

\* String.prototype.startsWith
startsWith(s, prefix) ==
    /\ Len(prefix) <= Len(s)
    /\ SubSeq(s, 1, Len(prefix)) = prefix

\* part_015 28-45 with the path prefix left uncompared
isUrlAllowed_hostOnly(url, allowed) ==
    IF ~url.parses THEN FALSE
    ELSE \E domain \in allowed : url.hostname = split(domain)[1]

\* part_015 28-45
isUrlAllowed(url, allowed) ==
    IF ~url.parses THEN FALSE
    ELSE \E domain \in allowed :
            LET parts == split(domain)
                host == parts[1]
                pathParts == Tail(parts)
                pathPrefix == IF Len(pathParts) > 0
                              THEN <<"/">> \o join(pathParts) ELSE <<>>
            IN  /\ ~(url.hostname # host)
                /\ ~(pathPrefix # <<>> /\ ~startsWith(url.pathname, pathPrefix))

\* sandbox.ts 31-38 (guardUrl, extension), harness.ts 203-205,
\* mcp-server sandbox.ts 203-208: the first statement of navigate
navigate_guard(url, waitForSelector) ==
    /\ navPc \in {"idle", "rejected", "done", "waitFailed"}
    /\ navUrl' = url
    /\ navWaitSel' = waitForSelector
    /\ domTouched' = FALSE
    /\ navPc' = IF isUrlAllowed(url, domains) THEN "loading" ELSE "rejected"
    /\ UNCHANGED <<notNav, navBackend, domains, pageUrl>>

extension_navigate(url, waitForSelector) ==
    /\ navBackend = "extension"
    /\ navigate_guard(url, waitForSelector)

harness_navigate(url, waitForSelector) ==
    /\ navBackend = "harness"
    /\ navigate_guard(url, waitForSelector)

server_navigate(url, waitForSelector) ==
    /\ navBackend = "server"
    /\ navigate_guard(url, waitForSelector)

\* sandbox.ts 56-59 (window.location.href = url), harness.ts 206,
\* mcp-server sandbox.ts 209 (pw.goto): the page load
navigate_load ==
    /\ navPc = "loading"
    /\ pageUrl' = navUrl
    /\ navPc' = IF navWaitSel THEN "settling" ELSE "done"
    /\ UNCHANGED <<notNav, navBackend, domains, navUrl, navWaitSel,
                   domTouched>>

\* sandbox.ts 60-62, harness.ts 207-209, mcp-server sandbox.ts 210-212:
\* wait for the ready selector, which is found or times out
navigate_waitForSelector(found) ==
    /\ navPc = "settling"
    /\ domTouched' = TRUE
    /\ navPc' = IF found THEN "done" ELSE "waitFailed"
    /\ UNCHANGED <<notNav, navBackend, domains, navUrl, navWaitSel, pageUrl>>

InitNav ==
    /\ now = 0
    /\ HumanIdle
    /\ WaitIdle
    /\ StorageIdle
    /\ RegIdle
    /\ CallIdle
    /\ PageOpIdle
    /\ CacheIdle
    /\ InitFnIdle
    /\ EquivIdle
    /\ RaceIdle
    /\ InvokeIdle
    /\ DeclIdle
    /\ CoerceIdle
    /\ navBackend \in Backends
    /\ domains \in {D \in SUBSET DomainEntries :
                       Cardinality(D) >= 1 /\ Cardinality(D) <= MaxDomains}
    /\ navPc = "idle"
    /\ navUrl = Blank
    /\ navWaitSel = FALSE
    /\ pageUrl = Blank
    /\ domTouched = FALSE

NextNav ==
    \/ \E url \in Urls, w \in BOOLEAN : extension_navigate(url, w)
    \/ \E url \in Urls, w \in BOOLEAN : harness_navigate(url, w)
    \/ \E url \in Urls, w \in BOOLEAN : server_navigate(url, w)
    \/ navigate_load
    \/ \E found \in BOOLEAN : navigate_waitForSelector(found)

SpecNav == InitNav /\ [][NextNav]_vars

\* ----------------------------------------------------------------- claim C6
\* C6: in every backend a document is loaded, and the DOM is queried, by
\* navigate only for a URL that parses and that some allow-list entry matches:
\* the entry's host (the text before its first "/") equals the URL's host and
\* the entry's path prefix (the text from its first "/" on), if there is one,
\* is a prefix of the URL's path.  A rejected call has not touched the DOM.
C6_NavigateOnlyToAllowListedUrls ==
    LET FirstSlash(d) ==
            IF \E i \in 1..Len(d) : d[i] = "/"
            THEN CHOOSE i \in 1..Len(d) :
                     d[i] = "/" /\ \A j \in 1..(i - 1) : d[j] # "/"
            ELSE Len(d) + 1
        EntryHost(d) == SubSeq(d, 1, FirstSlash(d) - 1)
        EntryPrefix(d) == SubSeq(d, FirstSlash(d), Len(d))
        Matches(u) ==
            /\ u.parses
            /\ \E d \in domains :
                   /\ EntryHost(d) = u.hostname
                   /\ \E k \in 0..Len(u.pathname) :
                          SubSeq(u.pathname, 1, k) = EntryPrefix(d)
    IN  /\ pageUrl # Blank => Matches(pageUrl)
        /\ navPc \in {"loading", "settling", "done", "waitFailed"}
               => Matches(navUrl)
        /\ navPc = "rejected" => (~Matches(navUrl) /\ ~domTouched)

\* a navigation to a URL under an entry with a path prefix has loaded
C6_Witness ==
    /\ navPc = "done"
    /\ pageUrl = navUrl
    /\ Len(navUrl.pathname) >= 2
    /\ \E d \in domains : Len(d) >= 3 /\ startsWith(pageUrl.pathname, Tail(d))

\* ======================================================= context.storage
\* part_015 56
MAX_STORAGE_BYTES == 100 * 1024

\* the values adapters store: strings whose JSON is half the quota, one byte
\* more than half, and one byte more than the whole quota
Values ==
    {[chars |-> n] : n \in {(MAX_STORAGE_BYTES \div 2) - 2,
                            (MAX_STORAGE_BYTES \div 2) - 1,
                            MAX_STORAGE_BYTES - 1}}

\* part_015 51-53: the UTF-8 length of JSON.stringify(value); a string of
\* ASCII letters serialises to itself between two double quotes
jsonByteSize(value) == value.chars + 2

RECURSIVE SumBytes(_, _)
\* Array.prototype.reduce((sum, [, v]) => sum + jsonByteSize(v), 0) over the
\* entries of `map` whose key is in `ks`
SumBytes(map, ks) ==
    IF ks = {} THEN 0
    ELSE LET k == CHOOSE x \in ks : TRUE
         IN  jsonByteSize(map[k]) + SumBytes(map, ks \ {k})

\* the keys of a dictionary that hold a value
Present(map) == {k \in DOMAIN map : map[k] # Absent}

\* what storage.get(key) of `pluginId` returns in the current backend
\* (Absent stands for null)
storage_get(pluginId, key) ==
    IF stBackend = "extension" THEN extStore[pluginStorageKey(pluginId, key)]
    ELSE IF stBackend = "server" THEN srvFiles[storageFile(pluginId)][key]
    ELSE harnessMaps[pluginId][key]

\* the adapter's namespace as its own get calls see it
NamespaceView(pluginId) == [k \in Keys |-> storage_get(pluginId, k)]

\* the total JSON size of the values stored under the adapter's namespace
NamespaceBytes(pluginId) ==
    SumBytes(NamespaceView(pluginId), Present(NamespaceView(pluginId)))

\* the record of a finished storage call
Called(op, pluginId, key, value, threw, usedBefore, viewBefore, viewAfter) ==
    [op |-> op, plugin |-> pluginId, key |-> key, value |-> value,
     threw |-> threw, usedBefore |-> usedBefore,
     changed |-> viewBefore # viewAfter]

\* extension sandbox.ts 191-195 with its prefix filter matching nothing
extUsedBytes_noPrefixMatch(pluginId) ==
    SumBytes(extStore, {})

\* extension sandbox.ts 191-195: the bytes of every chrome.storage.local
\* entry whose key starts with the plugin's prefix
extUsedBytes(pluginId) ==
    LET pluginPrefix == <<"civic-mcp:plugin:">> \o pluginId \o <<":">>
    IN  SumBytes(extStore,
                 {ek \in Present(extStore) : startsWith(ek, pluginPrefix)})

\* extension sandbox.ts 190-203
extension_set(pluginId, k, value) ==
    /\ stBackend = "extension"
    /\ LET usedBytes == extUsedBytes(pluginId)
           newBytes == jsonByteSize(value)
           threw == usedBytes + newBytes > MAX_STORAGE_BYTES
       IN  /\ extStore' = IF threw THEN extStore
                          ELSE [extStore EXCEPT
                                   ![pluginStorageKey(pluginId, k)] = value]
           /\ stLast' = Called("set", pluginId, k, value, threw,
                               NamespaceBytes(pluginId),
                               NamespaceView(pluginId),
                               [x \in Keys |->
                                   extStore'[pluginStorageKey(pluginId, x)]])
    /\ UNCHANGED <<stBackend, srvFiles, harnessMaps, notStorage>>

\* extension sandbox.ts 205-207
extension_delete(pluginId, k) ==
    /\ stBackend = "extension"
    /\ extStore' = [extStore EXCEPT ![pluginStorageKey(pluginId, k)] = Absent]
    /\ stLast' = Called("delete", pluginId, k, Absent, FALSE,
                        NamespaceBytes(pluginId), NamespaceView(pluginId),
                        [x \in Keys |->
                            extStore'[pluginStorageKey(pluginId, x)]])
    /\ UNCHANGED <<stBackend, srvFiles, harnessMaps, notStorage>>

\* extension sandbox.ts 209-216
extension_clear(pluginId) ==
    /\ stBackend = "extension"
    /\ LET prefix == <<"civic-mcp:plugin:">> \o pluginId \o <<":">>
           toRemove == {ek \in Present(extStore) : startsWith(ek, prefix)}
       IN  extStore' = [ek \in FullKeys |->
                           IF ek \in toRemove THEN Absent ELSE extStore[ek]]
    /\ stLast' = Called("clear", pluginId, <<>>, Absent, FALSE,
                        NamespaceBytes(pluginId), NamespaceView(pluginId),
                        [x \in Keys |->
                            extStore'[pluginStorageKey(pluginId, x)]])
    /\ UNCHANGED <<stBackend, srvFiles, harnessMaps, notStorage>>

\* mcp-server sandbox.ts 53-60
readStore(adapterId) == srvFiles[storageFile(adapterId)]

\* mcp-server sandbox.ts 62-65
writeStore(adapterId, store) ==
    srvFiles' = [srvFiles EXCEPT ![storageFile(adapterId)] = store]

\* mcp-server sandbox.ts 74-86
server_set(adapterId, key, value) ==
    /\ stBackend = "server"
    /\ LET store == readStore(adapterId)
           existingBytes == SumBytes(store, Present(store) \ {key})
           newBytes == jsonByteSize(value)
           threw == existingBytes + newBytes > MAX_STORAGE_BYTES
       IN  /\ IF threw THEN UNCHANGED srvFiles
              ELSE writeStore(adapterId, [store EXCEPT ![key] = value])
           /\ stLast' = Called("set", adapterId, key, value, threw,
                               NamespaceBytes(adapterId),
                               NamespaceView(adapterId),
                               srvFiles'[storageFile(adapterId)])
    /\ UNCHANGED <<stBackend, extStore, harnessMaps, notStorage>>

\* mcp-server sandbox.ts 88-92
server_delete(adapterId, key) ==
    /\ stBackend = "server"
    /\ writeStore(adapterId, [readStore(adapterId) EXCEPT ![key] = Absent])
    /\ stLast' = Called("delete", adapterId, key, Absent, FALSE,
                        NamespaceBytes(adapterId), NamespaceView(adapterId),
                        srvFiles'[storageFile(adapterId)])
    /\ UNCHANGED <<stBackend, extStore, harnessMaps, notStorage>>

\* mcp-server sandbox.ts 94-96
server_clear(adapterId) ==
    /\ stBackend = "server"
    /\ writeStore(adapterId, EmptyMap)
    /\ stLast' = Called("clear", adapterId, <<>>, Absent, FALSE,
                        NamespaceBytes(adapterId), NamespaceView(adapterId),
                        srvFiles'[storageFile(adapterId)])
    /\ UNCHANGED <<stBackend, extStore, harnessMaps, notStorage>>

\* harness.ts 289-291: Map.set, with no size check
harness_set(pluginId, key, value) ==
    /\ stBackend = "harness"
    /\ harnessMaps' = [harnessMaps EXCEPT ![pluginId][key] = value]
    /\ stLast' = Called("set", pluginId, key, value, FALSE,
                        NamespaceBytes(pluginId), NamespaceView(pluginId),
                        harnessMaps'[pluginId])
    /\ UNCHANGED <<stBackend, extStore, srvFiles, notStorage>>

\* harness.ts 292-294
harness_delete(pluginId, key) ==
    /\ stBackend = "harness"
    /\ harnessMaps' = [harnessMaps EXCEPT ![pluginId][key] = Absent]
    /\ stLast' = Called("delete", pluginId, key, Absent, FALSE,
                        NamespaceBytes(pluginId), NamespaceView(pluginId),
                        harnessMaps'[pluginId])
    /\ UNCHANGED <<stBackend, extStore, srvFiles, notStorage>>

\* harness.ts 295-297
harness_clear(pluginId) ==
    /\ stBackend = "harness"
    /\ harnessMaps' = [harnessMaps EXCEPT ![pluginId] = EmptyMap]
    /\ stLast' = Called("clear", pluginId, <<>>, Absent, FALSE,
                        NamespaceBytes(pluginId), NamespaceView(pluginId),
                        harnessMaps'[pluginId])
    /\ UNCHANGED <<stBackend, extStore, srvFiles, notStorage>>

\* empty storage under one of the three backends
InitStorage ==
    /\ now = 0
    /\ HumanIdle
    /\ WaitIdle
    /\ NavIdle
    /\ RegIdle
    /\ CallIdle
    /\ PageOpIdle
    /\ CacheIdle
    /\ InitFnIdle
    /\ EquivIdle
    /\ RaceIdle
    /\ InvokeIdle
    /\ DeclIdle
    /\ CoerceIdle
    /\ stBackend \in Backends
    /\ extStore = [f \in FullKeys |-> Absent]
    /\ srvFiles = [f \in FileNames |-> EmptyMap]
    /\ harnessMaps = [pl \in InstallableIds |-> EmptyMap]
    /\ stLast = NoCall

NextStorage ==
    \E pluginId \in PluginIds :
        \/ \E k \in Keys, value \in Values :
               \/ extension_set(pluginId, k, value)
               \/ server_set(pluginId, k, value)
               \/ harness_set(pluginId, k, value)
        \/ \E k \in Keys :
               \/ extension_delete(pluginId, k)
               \/ server_delete(pluginId, k)
               \/ harness_delete(pluginId, k)
        \/ extension_clear(pluginId)
        \/ server_clear(pluginId)
        \/ harness_clear(pluginId)

SpecStorage == InitStorage /\ [][NextStorage]_vars

\* C7: in every backend a storage.set call for which the bytes already
\* stored under the adapter's namespace plus the bytes of the new value
\* exceed MAX_STORAGE_BYTES is rejected, and a rejected set leaves every
\* stored record as it was.
C7_OverQuotaSetRejectedEverywhere ==
    stLast.op = "set" =>
        /\ stLast.usedBefore + jsonByteSize(stLast.value) > MAX_STORAGE_BYTES
               => stLast.threw
        /\ stLast.threw => ~stLast.changed

\* C8: in the extension and server backends, after any sequence of set,
\* delete and clear calls the total JSON size of the values stored under an
\* adapter's namespace is at most MAX_STORAGE_BYTES.
C8_NamespaceWithinQuota ==
    stBackend \in {"extension", "server"} =>
        \A pluginId \in PluginIds :
            NamespaceBytes(pluginId) <= MAX_STORAGE_BYTES

\* a namespace filled exactly to the quota has just rejected one more write
C8_Witness ==
    /\ stBackend \in {"extension", "server"}
    /\ stLast.op = "set"
    /\ stLast.threw
    /\ stLast.usedBefore = MAX_STORAGE_BYTES
    /\ NamespaceBytes(stLast.plugin) = MAX_STORAGE_BYTES

\* ===================================================== tool namespacing
MaxIdLen == 8          \* characters of an adapter id
MaxToolNameLen == 3    \* characters of a tool name
MaxAdapters == 2       \* adapters loaded into one runtime

IdChars == {"g", "."}

\* part_016 20: REVERSE_DNS_RE = /^[a-z]{2,}(\.[a-z0-9-]+){2,}$/ over IdChars
MatchesReverseDns(id) ==
    LET dots == {i \in 1..Len(id) : id[i] = "."}
    IN  /\ Cardinality(dots) >= 2
        /\ \A i \in dots : i >= 3 /\ i < Len(id) /\ (i + 1) \notin dots

\* adapter ids the manifest validator accepts
AdapterIds == {id \in StringsUpTo(IdChars, MaxIdLen) : MatchesReverseDns(id)}

\* part_016 77-81: a tool name is any non-blank string
ToolNames == {t \in StringsUpTo(IdChars, MaxToolNameLen) : Len(t) >= 1}

\* the tool lists of one adapter module
ToolLists == {<<>>} \cup {<<t>> : t \in ToolNames}

\* part_015 19-21
namespacedToolName(pluginId, toolName) == pluginId \o <<".">> \o toolName

\* civic-mcp-server.js 116-121: the entries flattenTools pushes for one adapter
LoadedToolsOf(adapter) ==
    [i \in 1..Len(adapter.tools) |->
        [adapterId |-> adapter.id,
         mcpName |-> adapter.id \o <<".">> \o adapter.tools[i],
         tool |-> adapter.tools[i]]]

RECURSIVE flattenTools(_)
\* civic-mcp-server.js 110-125
flattenTools(adapters) ==
    IF Len(adapters) = 0 THEN <<>>
    ELSE LoadedToolsOf(Head(adapters)) \o flattenTools(Tail(adapters))

\* civic-mcp-server.js 56-60, 72-103: one directory entry is loaded; a module
\* without tools is skipped
loadOneAdapter(manifestId, toolNames) ==
    /\ regBackend = "server"
    /\ loadPc = "loading"
    /\ Len(regAdapters) < MaxAdapters
    /\ regAdapters' = IF Len(toolNames) > 0
                      THEN Append(regAdapters,
                                  [id |-> manifestId, tools |-> toolNames])
                      ELSE regAdapters
    /\ UNCHANGED <<regBackend, regTools, loadPc, extRegistered, notReg>>

\* index.ts 73-78: loadAdapters has returned and the list is flattened
bootstrap_flattenTools ==
    /\ regBackend = "server"
    /\ loadPc = "loading"
    /\ regTools' = flattenTools(regAdapters)
    /\ loadPc' = "serving"
    /\ UNCHANGED <<regBackend, regAdapters, extRegistered, notReg>>

\* plugin-loader.ts 175-200: every tool of the module is registered under
\* its namespaced name
loadJavaScriptPlugin(manifestId, toolNames) ==
    /\ regBackend = "extension"
    /\ Len(extRegistered) < MaxAdapters
    /\ extRegistered' = extRegistered \o
           [i \in 1..Len(toolNames) |->
               [adapterId |-> manifestId,
                mcpName |-> namespacedToolName(manifestId, toolNames[i]),
                tool |-> toolNames[i]]]
    /\ Len(toolNames) > 0
    /\ UNCHANGED <<regBackend, regAdapters, regTools, loadPc, notReg>>

InitNames ==
    /\ now = 0
    /\ HumanIdle
    /\ WaitIdle
    /\ NavIdle
    /\ StorageIdle
    /\ CallIdle
    /\ PageOpIdle
    /\ CacheIdle
    /\ InitFnIdle
    /\ EquivIdle
    /\ RaceIdle
    /\ InvokeIdle
    /\ DeclIdle
    /\ CoerceIdle
    /\ regBackend \in {"extension", "server"}
    /\ regAdapters = <<>>
    /\ regTools = <<>>
    /\ loadPc = "loading"
    /\ extRegistered = <<>>

NextNames ==
    \/ \E manifestId \in AdapterIds, toolNames \in ToolLists :
           \/ loadOneAdapter(manifestId, toolNames)
           \/ loadJavaScriptPlugin(manifestId, toolNames)
    \/ bootstrap_flattenTools

SpecNames == InitNames /\ [][NextNames]_vars

\* C9: two registered tools have the same namespaced name only if they have
\* the same adapter id and the same tool name.
C9_NamespacedNamesCollisionFree ==
    \A registry \in {regTools, extRegistered} :
        \A i, j \in DOMAIN registry :
            registry[i].mcpName = registry[j].mcpName
                => /\ registry[i].adapterId = registry[j].adapterId
                   /\ registry[i].tool = registry[j].tool

\* ================================================== server: tools/call
\* the adapter sets the server is started with
ServerAdapters ==
    {<<>>,
     <<[id |-> <<"gov.a.one">>, tools |-> <<<<"check">>, <<"apply">>>>]>>,
     <<[id |-> <<"gov.a.one">>, tools |-> <<<<"check">>>>],
       [id |-> <<"gov.a.two">>, tools |-> <<<<"check">>>>]>>}

\* names an agent may call: registered ones, a prefix of one, an extension of
\* one, a bare tool name, and the empty string
CallNames ==
    {<<"gov.a.one", ".", "check">>, <<"gov.a.two", ".", "check">>,
     <<"gov.a.one">>, <<"gov.a.one", ".", "check", "x">>, <<"check">>, <<>>}

ExecuteOutcomes == {"success", "failure", "throw"}

RECURSIVE joinComma(_)
\* Array.prototype.join(', ')
joinComma(parts) ==
    IF Len(parts) = 0 THEN <<>>
    ELSE IF Len(parts) = 1 THEN parts[1]
    ELSE parts[1] \o <<", ">> \o joinComma(Tail(parts))

\* civic-mcp-server.js 129 with startsWith in place of ===
findTool_prefixMatch(tools, mcpName) ==
    IF \E i \in DOMAIN tools : startsWith(tools[i].mcpName, mcpName)
    THEN CHOOSE i \in DOMAIN tools :
             /\ startsWith(tools[i].mcpName, mcpName)
             /\ \A j \in 1..(i - 1) : ~startsWith(tools[j].mcpName, mcpName)
    ELSE 0

\* civic-mcp-server.js 128-136: the index of the first tool with that name;
\* 0 stands for the throw
findTool(tools, mcpName) ==
    IF \E i \in DOMAIN tools : tools[i].mcpName = mcpName
    THEN CHOOSE i \in DOMAIN tools :
             /\ tools[i].mcpName = mcpName
             /\ \A j \in 1..(i - 1) : tools[j].mcpName # mcpName
    ELSE 0

\* civic-mcp-server.js 131-133: the message of the Error findTool throws
UnknownToolMessage(tools, mcpName) ==
    <<"Unknown tool: \"">> \o mcpName \o <<"\". Available: ">>
    \o joinComma([i \in DOMAIN tools |-> tools[i].mcpName])

\* index.ts 138-151: the handler up to its first await
tools_call(r, name) ==
    /\ callPc[r] = "idle"
    /\ callName' = [callName EXCEPT ![r] = name]
    /\ LET found == findTool(regTools, name)
       IN  IF found = 0
           THEN /\ callResponse' = [callResponse EXCEPT ![r] =
                       [isError |-> TRUE,
                        text |-> <<"Error: ">>
                                 \o UnknownToolMessage(regTools, name)]]
                /\ callPc' = [callPc EXCEPT ![r] = "responded"]
                /\ UNCHANGED callFound
           ELSE /\ callFound' = [callFound EXCEPT ![r] = found]
                /\ callPc' = [callPc EXCEPT ![r] = "getBrowser"]
                /\ UNCHANGED callResponse
    /\ UNCHANGED <<browser, launches, callBrowser, callCtx, callPage,
                   callInvoked, callOutcome, notCall>>

\* index.ts 92-94: getBrowser returns the launched browser or starts a launch
getBrowser(r) ==
    /\ callPc[r] = "getBrowser"
    /\ IF browser # 0
       THEN /\ callBrowser' = [callBrowser EXCEPT ![r] = browser]
            /\ callPc' = [callPc EXCEPT ![r] = "newContext"]
       ELSE /\ callPc' = [callPc EXCEPT ![r] = "launching"]
            /\ UNCHANGED callBrowser
    /\ UNCHANGED <<browser, launches, callName, callFound, callCtx, callPage,
                   callInvoked, callOutcome, callResponse, notCall>>

\* index.ts 94-99: chromium.launch has resolved
getBrowser_launched(r) ==
    /\ callPc[r] = "launching"
    /\ launches' = launches + 1
    /\ browser' = launches + 1
    /\ callBrowser' = [callBrowser EXCEPT ![r] = launches + 1]
    /\ callPc' = [callPc EXCEPT ![r] = "newContext"]
    /\ UNCHANGED <<callName, callFound, callCtx, callPage, callInvoked,
                   callOutcome, callResponse, notCall>>

\* index.ts 152
newContext(r) ==
    /\ callPc[r] = "newContext"
    /\ callCtx' = [callCtx EXCEPT ![r] = "open"]
    /\ callPc' = [callPc EXCEPT ![r] = "newPage"]
    /\ UNCHANGED <<browser, launches, callName, callFound, callBrowser,
                   callPage, callInvoked, callOutcome, callResponse, notCall>>

\* index.ts 153
newPage(r) ==
    /\ callPc[r] = "newPage"
    /\ callPage' = [callPage EXCEPT ![r] = "open"]
    /\ callPc' = [callPc EXCEPT ![r] = "sandbox"]
    /\ UNCHANGED <<browser, launches, callName, callFound, callBrowser,
                   callCtx, callInvoked, callOutcome, callResponse, notCall>>

\* index.ts 155-164: the sandbox is built and the tool's handler is called
execute_call(r) ==
    /\ callPc[r] = "sandbox"
    /\ callInvoked' = [callInvoked EXCEPT ![r] = TRUE]
    /\ callPc' = [callPc EXCEPT ![r] = "executing"]
    /\ UNCHANGED <<browser, launches, callName, callFound, callBrowser,
                   callCtx, callPage, callOutcome, callResponse, notCall>>

\* index.ts 163-165: the handler's promise settles
execute_settled(r, outcome) ==
    /\ callPc[r] = "executing"
    /\ callOutcome' = [callOutcome EXCEPT ![r] = outcome]
    /\ callPc' = [callPc EXCEPT ![r] = "dispose"]
    /\ UNCHANGED <<browser, launches, callName, callFound, callBrowser,
                   callCtx, callPage, callInvoked, callResponse, notCall>>

\* index.ts 166, 176 and mcp-server sandbox.ts 351-353: dispose closes the page
dispose(r) ==
    /\ callPc[r] = "dispose"
    /\ callPage' = [callPage EXCEPT ![r] = "closed"]
    /\ callPc' = [callPc EXCEPT ![r] = "closeContext"]
    /\ UNCHANGED <<browser, launches, callName, callFound, callBrowser,
                   callCtx, callInvoked, callOutcome, callResponse, notCall>>

\* index.ts 167-173 without the bCtx.close() of the catch block
closeContext_leakOnThrow(r) ==
    /\ callPc[r] = "closeContext"
    /\ callCtx' = [callCtx EXCEPT ![r] =
           IF callOutcome[r] = "throw" THEN @ ELSE "closed"]
    /\ callResponse' = [callResponse EXCEPT ![r] =
           IF callOutcome[r] = "throw"
           THEN [isError |-> TRUE,
                 text |-> <<"Error executing tool \"">> \o callName[r]
                          \o <<"\": ", "msg">>]
           ELSE IF callOutcome[r] = "failure"
           THEN [isError |-> TRUE, text |-> <<"Tool error: ", "error">>]
           ELSE [isError |-> FALSE, text |-> <<"data">>]]
    /\ callPc' = [callPc EXCEPT ![r] = "responded"]
    /\ UNCHANGED <<browser, launches, callName, callFound, callBrowser,
                   callPage, callInvoked, callOutcome, notCall>>

\* index.ts 167-173, 177-196: the context is closed and the result returned
closeContext(r) ==
    /\ callPc[r] = "closeContext"
    /\ callCtx' = [callCtx EXCEPT ![r] = "closed"]
    /\ callResponse' = [callResponse EXCEPT ![r] =
           IF callOutcome[r] = "throw"
           THEN [isError |-> TRUE,
                 text |-> <<"Error executing tool \"">> \o callName[r]
                          \o <<"\": ", "msg">>]
           ELSE IF callOutcome[r] = "failure"
           THEN [isError |-> TRUE, text |-> <<"Tool error: ", "error">>]
           ELSE [isError |-> FALSE, text |-> <<"data">>]]
    /\ callPc' = [callPc EXCEPT ![r] = "responded"]
    /\ UNCHANGED <<browser, launches, callName, callFound, callBrowser,
                   callPage, callInvoked, callOutcome, notCall>>

\* the server after bootstrap, before any request
InitServer ==
    /\ now = 0
    /\ HumanIdle
    /\ WaitIdle
    /\ NavIdle
    /\ StorageIdle
    /\ CallIdle
    /\ PageOpIdle
    /\ CacheIdle
    /\ InitFnIdle
    /\ EquivIdle
    /\ RaceIdle
    /\ InvokeIdle
    /\ DeclIdle
    /\ CoerceIdle
    /\ regBackend = "server"
    /\ regAdapters \in ServerAdapters
    /\ regTools = flattenTools(regAdapters)
    /\ loadPc = "serving"
    /\ extRegistered = <<>>

NextServer ==
    \E r \in Calls :
        \/ \E name \in CallNames : tools_call(r, name)
        \/ getBrowser(r)
        \/ getBrowser_launched(r)
        \/ newContext(r)
        \/ newPage(r)
        \/ execute_call(r)
        \/ \E outcome \in ExecuteOutcomes : execute_settled(r, outcome)
        \/ dispose(r)
        \/ closeContext(r)

SpecServer == InitServer /\ [][NextServer]_vars

\* the request's name is not the name of any loaded tool
UnknownName(r) == \A i \in DOMAIN regTools : regTools[i].mcpName # callName[r]

\* the text contains `sub` somewhere after its "Available:" part begins
ListsAfterAvailable(text, sub) ==
    \E a \in 1..Len(text) :
        /\ text[a] = "\". Available: "
        /\ \E k \in a..(Len(text) - Len(sub)) :
               SubSeq(text, k + 1, k + Len(sub)) = sub

\* C10: a tools/call request whose name is not in the loaded tool list is
\* answered with an error that lists every loaded tool name, and the request
\* launches no browser, opens no browser context or page, and calls no
\* adapter handler.
C10_UnknownToolFailsClosed ==
    \A r \in Calls :
        (callPc[r] # "idle" /\ UnknownName(r)) =>
            /\ callPc[r] = "responded"
            /\ callResponse[r].isError
            /\ \A i \in DOMAIN regTools :
                   ListsAfterAvailable(callResponse[r].text,
                                       regTools[i].mcpName)
            /\ callBrowser[r] = 0
            /\ callCtx[r] = "none"
            /\ callPage[r] = "none"
            /\ ~callInvoked[r]

\* an unknown name was answered while another request's handler was running
C10_Witness ==
    \E r, q \in Calls :
        /\ callPc[r] = "responded"
        /\ UnknownName(r)
        /\ Len(regTools) >= 2
        /\ callName[r] # <<>>
        /\ callPc[q] = "executing"

\* ========================================= declarative output coercion
MaxRawLen == 3         \* characters of a raw output text

\* "yes", "eligible", "not " and "in" each stand for that run of characters:
\* <<"in", "eligible">> is the text "ineligible"
RawChars == {"$", ",", "0", "1", "x", "yes", "eligible", "not ", "in"}
Digits == {"0", "1"}
RawTexts == {RawNull} \cup {Raw(chars) : chars \in StringsUpTo(RawChars, MaxRawLen)}

\* declarative.ts 60
OutputTypes == {"text", "number", "boolean", "html", "url", "date"}

RECURSIVE replaceAll(_, _)
\* String.prototype.replace(/[,$]/g, ''): every character of `removed` dropped
replaceAll(chars, removed) ==
    IF chars = <<>> THEN <<>>
    ELSE IF Head(chars) \in removed THEN replaceAll(Tail(chars), removed)
    ELSE <<Head(chars)>> \o replaceAll(Tail(chars), removed)

\* the longest prefix of digits
DigitPrefix(chars) ==
    LET stops == {i \in 1..Len(chars) : chars[i] \notin Digits}
        end == IF stops = {} THEN Len(chars)
               ELSE (CHOOSE i \in stops : \A j \in stops : i <= j) - 1
    IN  SubSeq(chars, 1, end)

RECURSIVE DecimalValue(_)
\* the number a run of decimal digits denotes
DecimalValue(digits) ==
    IF digits = <<>> THEN 0
    ELSE 10 * DecimalValue(SubSeq(digits, 1, Len(digits) - 1))
         + (IF digits[Len(digits)] = "1" THEN 1 ELSE 0)

\* parseFloat over RawChars: the value of the leading digits, NaN without any
parseFloat(chars) ==
    IF DigitPrefix(chars) = <<>> THEN [nan |-> TRUE, n |-> 0]
    ELSE [nan |-> FALSE, n |-> DecimalValue(DigitPrefix(chars))]

\* /yes|true|eligible|approved/i.test(raw)
TestsAffirmative(chars) ==
    \E i \in 1..Len(chars) : chars[i] \in {"yes", "true", "eligible", "approved"}

\* plugin-loader.ts 208-220; `x || null` is null when x is NaN or 0
coerceOutput(raw, type) ==
    IF raw.null THEN JsNull
    ELSE IF type = "number"
    THEN LET x == parseFloat(replaceAll(raw.s, {",", "$"}))
         IN  IF x.nan \/ x.n = 0 THEN JsNull ELSE JsNumber(x.n)
    ELSE IF type = "boolean" THEN JsBoolean(TestsAffirmative(raw.s))
    ELSE JsString(raw.s)

\* plugin-loader.ts 157: coerceOutput is applied to what was read
coerce_apply ==
    /\ coResult = Pending
    /\ coResult' = coerceOutput(coRaw, coType)
    /\ UNCHANGED <<coRaw, coType, notCoerce>>

InitCoerce ==
    /\ now = 0
    /\ HumanIdle
    /\ WaitIdle
    /\ NavIdle
    /\ StorageIdle
    /\ RegIdle
    /\ CallIdle
    /\ PageOpIdle
    /\ CacheIdle
    /\ InitFnIdle
    /\ EquivIdle
    /\ RaceIdle
    /\ InvokeIdle
    /\ DeclIdle
    /\ coRaw \in RawTexts
    /\ coType \in OutputTypes
    /\ coResult = Pending

NextCoerce == coerce_apply

SpecCoerce == InitCoerce /\ [][NextCoerce]_vars

\* C16: for type number, a text that is a number once "$" and "," are
\* removed is coerced to that number, zero included, and the result is null
\* only if what remains is not a number.
C16_NumberCoercionKeepsEveryNumber ==
    (coType = "number" /\ coResult # Pending /\ ~coRaw.null) =>
        LET rest == SelectSeq(coRaw.s, LAMBDA c : c \notin {"$", ","})
            IsNumber == rest # <<>> /\ \A i \in 1..Len(rest) : rest[i] \in Digits
            Value[k \in 0..Len(rest)] ==
                IF k = 0 THEN 0
                ELSE 10 * Value[k - 1] + (IF rest[k] = "1" THEN 1 ELSE 0)
        IN  /\ IsNumber => coResult = JsNumber(Value[Len(rest)])
            /\ coResult = JsNull => ~IsNumber

\* ============================ extension: the declarative interpreter
\* the stages of plugin-loader.ts 124-158, in source order
StageRank ==
    [navigate |-> 1, clickFirst |-> 2, fill |-> 3, submit |-> 4,
     waitResults |-> 5, read |-> 6]

\* a completed page operation
Op(stage, target, ok) == [stage |-> stage, target |-> target, ok |-> ok]

\* the values a caller passes for a parameter
ArgValues == {JsUndefined, JsNull, JsNumber(0)}

\* what an output selector matches: no element, or an element with this text
DeclRaws == {RawNull, Raw(<<"0">>), Raw(<<"$", "1">>)}
Matches == {[present |-> FALSE, raw |-> RawNull]}
           \cup {[present |-> TRUE, raw |-> r] : r \in DeclRaws}

\* declarative.ts 36-43: target page inside or outside manifest.domains,
\* with or without a ready selector and a first click
NavigationDefs ==
    {[url |-> [parses |-> TRUE, hostname |-> <<"a.gov">>, pathname |-> <<"/">>],
      waitForSelector |-> FALSE, clickFirst |-> FALSE],
     [url |-> [parses |-> TRUE, hostname |-> <<"a.gov">>, pathname |-> <<"/">>],
      waitForSelector |-> TRUE, clickFirst |-> TRUE],
     [url |-> [parses |-> TRUE, hostname |-> <<"b.gov">>, pathname |-> <<"/">>],
      waitForSelector |-> FALSE, clickFirst |-> FALSE]}

\* declarative.ts 18-30
InputDefs(hasDefault) ==
    [i \in DOMAIN DeclaredParams |->
        [param |-> DeclaredParams[i], selector |-> i,
         hasDefault |-> hasDefault[i], default |-> JsNumber(1)]]

\* declarative.ts 62-70
OutputDefs(optional) ==
    [i \in DOMAIN OutputKeys |->
        [key |-> OutputKeys[i], type |-> IF i = 1 THEN "number" ELSE "text",
         optional |-> optional[i]]]

\* declarative.ts 76-83
DeclarativeTools ==
    {[url |-> nav.url, waitForSelector |-> nav.waitForSelector,
      clickFirst |-> nav.clickFirst, inputs |-> InputDefs(hasDefault),
      submitWait |-> submitWait, output |-> OutputDefs(optional)] :
        nav \in NavigationDefs, submitWait \in BOOLEAN,
        hasDefault \in [DOMAIN DeclaredParams -> BOOLEAN],
        optional \in [DOMAIN OutputKeys -> BOOLEAN]}

RECURSIVE NatToString(_)
\* the decimal digits of a natural number
NatToString(n) ==
    LET digit == <<"0", "1", "2", "3", "4", "5", "6", "7", "8", "9">>[(n % 10) + 1]
    IN  IF n < 10 THEN <<digit>> ELSE NatToString(n \div 10) \o <<digit>>

\* String(value)
String(value) ==
    IF value.kind = "number" THEN NatToString(value.n)
    ELSE IF value.kind = "boolean"
    THEN (IF value.n = 1 THEN <<"t", "r", "u", "e">>
          ELSE <<"f", "a", "l", "s", "e">>)
    ELSE IF value.kind = "string" THEN value.s
    ELSE IF value.kind = "null" THEN <<"n", "u", "l", "l">>
    ELSE <<"u", "n", "d", "e", "f", "i", "n", "e", "d">>

\* part_015 62-66: control characters other than tab, LF and CR are removed
sanitizeFieldValue(value) ==
    replaceAll(value, {"\\x00", "\\x07", "\\x0B", "\\x1F", "\\x7F"})

\* plugin-loader.ts 161-167: the catch of execute
Caught == [kind |-> "returned", success |-> FALSE, code |-> "UNKNOWN",
           data |-> <<>>]

\* plugin-loader.ts 160
Succeeded(output) ==
    [kind |-> "returned", success |-> TRUE, code |-> "none", data |-> output]

\* plugin-loader.ts 122-126 and sandbox.ts 54-56: execute is called and calls
\* navigate, which checks the allow-list before loading
decl_execute(params) ==
    /\ dPc = "idle"
    /\ navPc = "idle"
    /\ dParams' = params
    /\ navUrl' = dTool.url
    /\ navWaitSel' = dTool.waitForSelector
    /\ domTouched' = FALSE
    /\ navPc' = IF isUrlAllowed(dTool.url, domains) THEN "loading"
                ELSE "rejected"
    /\ dPc' = "navigating"
    /\ UNCHANGED <<dTool, dIdx, dFilled, dDom, dLog, dResult, navBackend,
                   domains, pageUrl, notDeclNav>>

\* plugin-loader.ts 124-131: navigate has settled
decl_navigated ==
    /\ dPc = "navigating"
    /\ navPc \in {"done", "rejected", "waitFailed"}
    /\ dLog' = Append(dLog, Op("navigate", 0, navPc = "done"))
    /\ IF navPc # "done"
       THEN /\ dResult' = Caught
            /\ dPc' = "returned"
            /\ UNCHANGED dIdx
       ELSE /\ dPc' = IF dTool.clickFirst THEN "clickFirst" ELSE "fill"
            /\ dIdx' = 1
            /\ UNCHANGED dResult
    /\ UNCHANGED <<dTool, dParams, dFilled, dDom, notDecl>>

\* plugin-loader.ts 128-130 with a click on a missing element not throwing
decl_clickFirst_ignoreMissing(found) ==
    /\ dPc = "clickFirst"
    /\ dLog' = Append(dLog, Op("clickFirst", 0, found))
    /\ dPc' = "fill"
    /\ UNCHANGED <<dTool, dParams, dIdx, dFilled, dDom, dResult, notDecl>>

\* plugin-loader.ts 128-130 and sandbox.ts 103-106
decl_clickFirst(found) ==
    /\ dPc = "clickFirst"
    /\ dLog' = Append(dLog, Op("clickFirst", 0, found))
    /\ IF found
       THEN dPc' = "fill" /\ UNCHANGED dResult
       ELSE dPc' = "returned" /\ dResult' = Caught
    /\ UNCHANGED <<dTool, dParams, dIdx, dFilled, dDom, notDecl>>

\* plugin-loader.ts 132-136 and sandbox.ts 65-87: one iteration of the fill
\* loop; after the last one the submit click is next
decl_fill(found) ==
    /\ dPc = "fill"
    /\ dIdx <= Len(dTool.inputs)
    /\ LET def == dTool.inputs[dIdx]
           value == dParams[def.param]
       IN  IF value = JsUndefined \/ value = JsNull
           THEN /\ found
                /\ dIdx' = dIdx + 1
                /\ UNCHANGED <<dPc, dFilled, dLog, dResult>>
           ELSE /\ dLog' = Append(dLog, Op("fill", def.selector, found))
                /\ IF found
                   THEN /\ dFilled' = [dFilled EXCEPT ![def.selector] =
                               JsString(sanitizeFieldValue(String(value)))]
                        /\ dIdx' = dIdx + 1
                        /\ UNCHANGED <<dPc, dResult>>
                   ELSE /\ dPc' = "returned"
                        /\ dResult' = Caught
                        /\ UNCHANGED <<dIdx, dFilled>>
    /\ UNCHANGED <<dTool, dParams, dDom, notDecl>>

\* plugin-loader.ts 138-144 and sandbox.ts 103-110
decl_submit(found) ==
    /\ dPc = "fill"
    /\ dIdx > Len(dTool.inputs)
    /\ dLog' = Append(dLog, Op("submit", 0, found))
    /\ IF found
       THEN /\ dPc' = IF dTool.submitWait THEN "waitResults" ELSE "read"
            /\ UNCHANGED dResult
       ELSE /\ dPc' = "returned"
            /\ dResult' = Caught
    /\ UNCHANGED <<dTool, dParams, dIdx, dFilled, dDom, notDecl>>

\* plugin-loader.ts 142-144 and sandbox.ts 40-51, 126-128: the results
\* selector appears or the wait times out
decl_waitForSelector(found) ==
    /\ dPc = "waitResults"
    /\ dLog' = Append(dLog, Op("waitResults", 0, found))
    /\ IF found
       THEN dPc' = "read" /\ UNCHANGED dResult
       ELSE dPc' = "returned" /\ dResult' = Caught
    /\ UNCHANGED <<dTool, dParams, dIdx, dFilled, dDom, notDecl>>

RECURSIVE readOutputs_stopAtMissing(_, _, _, _)
\* plugin-loader.ts 147-158 with `break` in place of `continue`
readOutputs_stopAtMissing(defs, dom, i, output) ==
    IF i > Len(defs) THEN [ok |-> TRUE, output |-> output]
    ELSE IF ~dom[i].present
    THEN IF ~defs[i].optional THEN [ok |-> FALSE, output |-> <<>>]
         ELSE [ok |-> TRUE, output |-> Append(output, JsNull)]
    ELSE readOutputs_stopAtMissing(defs, dom, i + 1,
             Append(output, coerceOutput(dom[i].raw, defs[i].type)))

RECURSIVE readOutputs(_, _, _, _)
\* plugin-loader.ts 147-158: the output loop from field i on; `output` holds
\* the values of the fields before i, in Object.entries order
readOutputs(defs, dom, i, output) ==
    IF i > Len(defs) THEN [ok |-> TRUE, output |-> output]
    ELSE IF ~dom[i].present
    THEN IF ~defs[i].optional THEN [ok |-> FALSE, output |-> <<>>]
         ELSE readOutputs(defs, dom, i + 1, Append(output, JsNull))
    ELSE readOutputs(defs, dom, i + 1,
             Append(output, coerceOutput(dom[i].raw, defs[i].type)))

\* plugin-loader.ts 146-167: the output fields are read from the document
\* and execute returns
decl_read(dom) ==
    /\ dPc = "read"
    /\ dDom' = dom
    /\ LET r == readOutputs(dTool.output, dom, 1, <<>>)
       IN  /\ dLog' = Append(dLog, Op("read", 0, r.ok))
           /\ dResult' = IF r.ok THEN Succeeded(r.output) ELSE Caught
    /\ dPc' = "returned"
    /\ UNCHANGED <<dTool, dParams, dIdx, dFilled, notDecl>>

\* a declarative tool registered on a page of the extension
InitDeclarative ==
    /\ now = 0
    /\ HumanIdle
    /\ WaitIdle
    /\ StorageIdle
    /\ RegIdle
    /\ CallIdle
    /\ PageOpIdle
    /\ CacheIdle
    /\ InitFnIdle
    /\ EquivIdle
    /\ RaceIdle
    /\ InvokeIdle
    /\ CoerceIdle
    /\ navBackend = "extension"
    /\ domains = {<<"a.gov">>}
    /\ navPc = "idle"
    /\ navUrl = Blank
    /\ navWaitSel = FALSE
    /\ pageUrl = Blank
    /\ domTouched = FALSE
    /\ dTool \in DeclarativeTools
    /\ dParams = [a \in ArgNames |-> JsUndefined]
    /\ dPc = "idle"
    /\ dIdx = 0
    /\ dFilled = [i \in DOMAIN InputSelectors |-> JsUndefined]
    /\ dDom = <<>>
    /\ dLog = <<>>
    /\ dResult = NoToolResult

NextDeclarative ==
    \/ \E params \in [ArgNames -> ArgValues] : decl_execute(params)
    \/ navigate_load
    \/ \E found \in BOOLEAN : navigate_waitForSelector(found)
    \/ decl_navigated
    \/ \E found \in BOOLEAN : decl_clickFirst(found)
    \/ \E found \in BOOLEAN : decl_fill(found)
    \/ \E found \in BOOLEAN : decl_submit(found)
    \/ \E found \in BOOLEAN : decl_waitForSelector(found)
    \/ \E dom \in [DOMAIN OutputKeys -> Matches] : decl_read(dom)

SpecDeclarative == InitDeclarative /\ [][NextDeclarative]_vars

\* C12: a declarative tool whose submit selector matches no element returns
\* {success: false, code: 'SELECTOR_NOT_FOUND'} (and does not throw).
C12_MissingSubmitSelectorReported ==
    (dPc = "returned" /\ dLog # <<>> /\ dLog[Len(dLog)] = Op("submit", 0, FALSE))
        => /\ dResult.kind = "returned"
           /\ ~dResult.success
           /\ dResult.code = "SELECTOR_NOT_FOUND"

\* C13: once the output fields have been read, if a field that is not
\* optional matched no element the call returned a failure without data;
\* otherwise it returned a value for every field, null for each optional
\* field that matched nothing and the coerced text for every other field.
C13_OptionalOutputsNullRequiredOutputsFail ==
    (dPc = "returned" /\ dDom # <<>>) =>
        LET defs == dTool.output
            missingRequired ==
                \E i \in DOMAIN defs : ~dDom[i].present /\ ~defs[i].optional
        IN  IF missingRequired
            THEN ~dResult.success /\ dResult.data = <<>>
            ELSE /\ dResult.success
                 /\ Len(dResult.data) = Len(defs)
                 /\ \A i \in DOMAIN defs :
                        dResult.data[i] =
                            IF dDom[i].present
                            THEN coerceOutput(dDom[i].raw, defs[i].type)
                            ELSE JsNull

\* the first field is optional and absent, the second was still read
C13_Witness ==
    /\ dPc = "returned"
    /\ dDom # <<>>
    /\ dTool.output[1].optional
    /\ ~dDom[1].present
    /\ dDom[2].present
    /\ dResult.success
    /\ dResult.data[1] = JsNull
    /\ dResult.data[2].kind = "string"

\* C14: the page operations of one invocation happen in the order navigate,
\* first click, fills, submit click, wait for results, output reads; nothing
\* follows a failed operation; no field is filled unless navigation has
\* completed, no output is read unless the submit click has happened, and
\* the optional stages run exactly when the tool declares them.
C14_StagesRunInFixedOrder ==
    LET Has(stage) == \E k \in DOMAIN dLog : dLog[k].stage = stage /\ dLog[k].ok
    IN  /\ \A i, j \in DOMAIN dLog :
               i < j => /\ StageRank[dLog[i].stage] <= StageRank[dLog[j].stage]
                        /\ dLog[i].stage = dLog[j].stage => dLog[i].stage = "fill"
                        /\ dLog[i].ok
        /\ \A k \in DOMAIN dLog :
               /\ dLog[k].stage # "navigate" => dLog[1] = Op("navigate", 0, TRUE)
               /\ dLog[k].stage \in {"waitResults", "read"} => Has("submit")
               /\ dLog[k].stage = "clickFirst" => dTool.clickFirst
               /\ dLog[k].stage = "waitResults" => dTool.submitWait
               /\ dLog[k].stage = "read" =>
                      (dTool.submitWait => Has("waitResults"))
               /\ dLog[k].stage \in {"fill", "submit"} =>
                      (dTool.clickFirst => Has("clickFirst"))
        /\ (\E i \in DOMAIN dFilled : dFilled[i] # JsUndefined) => Has("navigate")
        /\ dPc = "returned" =>
               /\ dLog # <<>>
               /\ dResult.success = (dLog[Len(dLog)] = Op("read", 0, TRUE))
               /\ ~dResult.success = ~dLog[Len(dLog)].ok

\* an invocation went through all six stages and succeeded
C14_Witness ==
    /\ dPc = "returned"
    /\ dResult.success
    /\ \A stage \in DOMAIN StageRank : \E k \in DOMAIN dLog : dLog[k].stage = stage
    /\ Len(dLog) = 7

\* C15: when the fill stage is over, each declared input's field holds the
\* call's argument if that is neither undefined nor null, else the declared
\* default if there is one, else it was not touched; only declared inputs'
\* fields were filled.
C15_FillUsesArgumentThenDefault ==
    (\E k \in DOMAIN dLog : dLog[k].stage = "submit") =>
        /\ \A i \in DOMAIN dTool.inputs :
               LET def == dTool.inputs[i]
                   arg == dParams[def.param]
               IN  dFilled[def.selector] =
                       IF arg # JsUndefined /\ arg # JsNull
                       THEN JsString(String(arg))
                       ELSE IF def.hasDefault THEN JsString(String(def.default))
                       ELSE JsUndefined
        /\ \A k \in DOMAIN dLog :
               dLog[k].stage = "fill" =>
                   \E i \in DOMAIN dTool.inputs :
                       dTool.inputs[i].selector = dLog[k].target

\* ============================================ storage: two adapters
\* adapters installed side by side in one runtime
IsolationIds == {<<"gov.a.one">>} \cup UnvalidatedIds

\* empty storage under one of the three backends
InitIsolation ==
    /\ now = 0
    /\ HumanIdle
    /\ WaitIdle
    /\ NavIdle
    /\ RegIdle
    /\ CallIdle
    /\ PageOpIdle
    /\ CacheIdle
    /\ InitFnIdle
    /\ EquivIdle
    /\ RaceIdle
    /\ InvokeIdle
    /\ CoerceIdle
    /\ DeclIdle
    /\ stBackend \in Backends
    /\ extStore = [f \in FullKeys |-> Absent]
    /\ srvFiles = [f \in FileNames |-> EmptyMap]
    /\ harnessMaps = [pl \in InstallableIds |-> EmptyMap]
    /\ stLast = NoCall

NextIsolation ==
    \E pluginId \in IsolationIds :
        \/ \E k \in Keys, value \in {[chars |-> 3]} :
               \/ extension_set(pluginId, k, value)
               \/ server_set(pluginId, k, value)
               \/ harness_set(pluginId, k, value)
        \/ \E k \in Keys :
               \/ extension_delete(pluginId, k)
               \/ server_delete(pluginId, k)
               \/ harness_delete(pluginId, k)
        \/ extension_clear(pluginId)
        \/ server_clear(pluginId)
        \/ harness_clear(pluginId)

SpecIsolation == InitIsolation /\ [][NextIsolation]_vars

\* C17: in every backend a storage call changes what get returns only for
\* the adapter that made the call.
C17_StorageIsolatedPerAdapter ==
    [][\A pluginId \in IsolationIds :
           NamespaceView(pluginId)' # NamespaceView(pluginId)
               => stLast'.plugin = pluginId]_vars

\* ==================================== tool invocation entry points
EntryPoints == {"declarative", "scripted", "harness", "server"}
ToolOutcomes == {"success", "failure", "throw"}

\* a promise rejected with the exception the tool threw
RawException == [kind |-> "threw", success |-> FALSE, code |-> "none",
                 data |-> <<>>]

\* the ToolResult a tool resolved with
Returned(success) ==
    [kind |-> "returned", success |-> success,
     code |-> IF success THEN "none" ELSE "VALIDATION", data |-> <<>>]

\* the arguments do not satisfy {required: ['income'], income: number}
ViolatesSchema(args) ==
    args.income = JsUndefined \/ args.income.kind # "number"

\* harness.ts 160-161, 106-109: testTool is called; init returns at once if
\* a browser is set, else starts loading
h_testTool(r, toolName) ==
    /\ invBackend = "harness"
    /\ tPc[r] = "idle"
    /\ tName' = [tName EXCEPT ![r] = toolName]
    /\ tPc' = [tPc EXCEPT ![r] = IF harnessBrowser # 0 THEN "find"
                                 ELSE "importing"]
    /\ UNCHANGED <<invBackend, invModule, invArgs, invOps, harnessBrowser,
                   harnessLaunches, playwrightPage, harnessContext,
                   harnessAdapter, tCtx, tOutcome, tResult, xLoad, xTools,
                   xPc, xOutcome, xResult, notInvoke>>

\* harness.ts 112-138: manifest and module are imported, the module is
\* checked for tools, and chromium.launch is called
h_imported(r) ==
    /\ tPc[r] = "importing"
    /\ harnessAdapter' = TRUE
    /\ IF Len(ModuleTools(invModule)) = 0
       THEN /\ tPc' = [tPc EXCEPT ![r] = "rejected"]
            /\ tResult' = [tResult EXCEPT ![r] = RawException]
       ELSE /\ tPc' = [tPc EXCEPT ![r] = "launching"]
            /\ UNCHANGED tResult
    /\ UNCHANGED <<invBackend, invModule, invArgs, invOps, harnessBrowser,
                   harnessLaunches, playwrightPage, harnessContext, tName,
                   tCtx, tOutcome, xLoad, xTools, xPc, xOutcome, xResult,
                   notInvoke>>

\* harness.ts 138-147: the launch resolves, `browser` is set, and a context
\* and page are requested from it (tCtx holds the page being created)
h_launched(r) ==
    /\ tPc[r] = "launching"
    /\ harnessLaunches' = harnessLaunches + 1
    /\ harnessBrowser' = harnessLaunches + 1
    /\ tCtx' = [tCtx EXCEPT ![r] = harnessLaunches + 1]
    /\ tPc' = [tPc EXCEPT ![r] = "creatingPage"]
    /\ UNCHANGED <<invBackend, invModule, invArgs, invOps, playwrightPage,
                   harnessContext, harnessAdapter, tName, tOutcome, tResult,
                   xLoad, xTools, xPc, xOutcome, xResult, notInvoke>>

\* harness.ts 147-155: the page exists; `playwrightPage` and `context` are
\* set and adapter.init(context) is called (every module here has an init)
h_pageCreated(r) ==
    /\ tPc[r] = "creatingPage"
    /\ playwrightPage' = tCtx[r]
    /\ harnessContext' = tCtx[r]
    /\ initCalls' = initCalls + 1
    /\ tPc' = [tPc EXCEPT ![r] = "init"]
    /\ UNCHANGED <<invBackend, invModule, invArgs, invOps, harnessBrowser,
                   harnessLaunches, harnessAdapter, tName, tCtx, tOutcome,
                   tResult, xLoad, xTools, xPc, xOutcome, xResult, initDone,
                   notInvokeInit>>

\* harness.ts 155-157: adapter.init has resolved and this run of init returns
h_initDone(r) ==
    /\ tPc[r] = "init"
    /\ initDone' = initDone + 1
    /\ tPc' = [tPc EXCEPT ![r] = "find"]
    /\ UNCHANGED <<invBackend, invModule, invArgs, invOps, harnessBrowser,
                   harnessLaunches, playwrightPage, harnessContext,
                   harnessAdapter, tName, tCtx, tOutcome, tResult, xLoad,
                   xTools, xPc, xOutcome, xResult, initCalls, notInvokeInit>>

\* harness.ts 163-171: init has returned; the tool is looked up and its
\* execute is called with params and the current `context`
h_find(r) ==
    /\ tPc[r] = "find"
    /\ IF \E i \in DOMAIN ModuleTools(invModule) :
              ModuleTools(invModule)[i] = tName[r]
       THEN /\ tCtx' = [tCtx EXCEPT ![r] = harnessContext]
            /\ tPc' = [tPc EXCEPT ![r] = "executing"]
            /\ UNCHANGED tResult
       ELSE /\ tPc' = [tPc EXCEPT ![r] = "rejected"]
            /\ tResult' = [tResult EXCEPT ![r] = RawException]
            /\ UNCHANGED tCtx
    /\ UNCHANGED <<invBackend, invModule, invArgs, invOps, harnessBrowser,
                   harnessLaunches, playwrightPage, harnessContext,
                   harnessAdapter, tName, tOutcome, xLoad, xTools, xPc,
                   xOutcome, xResult, notInvoke>>

\* harness.ts 171: testTool returns the promise of tool.execute as it is
h_settled(r, outcome) ==
    /\ tPc[r] = "executing"
    /\ tOutcome' = [tOutcome EXCEPT ![r] = outcome]
    /\ tResult' = [tResult EXCEPT ![r] =
           IF outcome = "throw" THEN RawException
           ELSE Returned(outcome = "success")]
    /\ tPc' = [tPc EXCEPT ![r] = "settled"]
    /\ UNCHANGED <<invBackend, invModule, invArgs, invOps, harnessBrowser,
                   harnessLaunches, playwrightPage, harnessContext,
                   harnessAdapter, tName, tCtx, xLoad, xTools, xPc, xOutcome,
                   xResult, notInvoke>>

\* sandbox.ts 328-340: the checks executePluginCode makes on the export
executePluginCode(module) ==
    /\ module.isObject
    /\ module.idIsString
    /\ module.tools # "missing"

\* plugin-loader.ts 176-181: the module is evaluated, the context created
\* and adapter.init(context) called
x_loadJavaScriptPlugin ==
    /\ invBackend = "scripted"
    /\ xLoad = "none"
    /\ IF executePluginCode(invModule)
       THEN xLoad' = "init" /\ initCalls' = initCalls + 1
       ELSE xLoad' = "failed" /\ UNCHANGED initCalls
    /\ UNCHANGED <<invBackend, invModule, invArgs, invOps, harnessBrowser,
                   harnessLaunches, playwrightPage, harnessContext,
                   harnessAdapter, tPc, tName, tCtx, tOutcome, tResult, xTools,
                   xPc, xOutcome, xResult, initDone, notInvokeInit>>

\* plugin-loader.ts 181-201: init has resolved; each tool is registered
x_initDone ==
    /\ xLoad = "init"
    /\ initDone' = initDone + 1
    /\ xLoad' = "loaded"
    /\ xTools' = ModuleTools(invModule)
    /\ UNCHANGED <<invBackend, invModule, invArgs, invOps, harnessBrowser,
                   harnessLaunches, playwrightPage, harnessContext,
                   harnessAdapter, tPc, tName, tCtx, tOutcome, tResult, xPc,
                   xOutcome, xResult, initCalls, notInvokeInit>>

\* plugin-loader.ts 189-191: the agent calls a registered tool
x_execute(r) ==
    /\ xLoad = "loaded"
    /\ xTools # <<>>
    /\ xPc[r] = "idle"
    /\ xPc' = [xPc EXCEPT ![r] = "executing"]
    /\ UNCHANGED <<invBackend, invModule, invArgs, invOps, harnessBrowser,
                   harnessLaunches, playwrightPage, harnessContext,
                   harnessAdapter, tPc, tName, tCtx, tOutcome, tResult, xLoad,
                   xTools, xOutcome, xResult, notInvoke>>

\* plugin-loader.ts 190-198: the tool's promise settles; a throw is caught
x_settled(r, outcome) ==
    /\ xPc[r] = "executing"
    /\ xOutcome' = [xOutcome EXCEPT ![r] = outcome]
    /\ xResult' = [xResult EXCEPT ![r] =
           IF outcome = "throw"
           THEN [kind |-> "returned", success |-> FALSE, code |-> "UNKNOWN",
                 data |-> <<>>]
           ELSE Returned(outcome = "success")]
    /\ xPc' = [xPc EXCEPT ![r] = "returned"]
    /\ UNCHANGED <<invBackend, invModule, invArgs, invOps, harnessBrowser,
                   harnessLaunches, playwrightPage, harnessContext,
                   harnessAdapter, tPc, tName, tCtx, tOutcome, tResult, xLoad,
                   xTools, notInvoke>>

\* the running tool issues an operation on its page (context.page.*)
tool_pageOp(r) ==
    /\ \/ tPc[r] = "executing"
       \/ xPc[r] = "executing"
       \/ callPc[r] = "executing"
    /\ ~invOps[r]
    /\ invOps' = [invOps EXCEPT ![r] = TRUE]
    /\ UNCHANGED <<invBackend, invModule, invArgs, harnessBrowser,
                   harnessLaunches, playwrightPage, harnessContext,
                   harnessAdapter, tPc, tName, tCtx, tOutcome, tResult, xLoad,
                   xTools, xPc, xOutcome, xResult, notInvoke>>

\* civic-mcp-server.js 56-60: the server loads the adapter's directory
srv_loadOneAdapter ==
    /\ invBackend = "server"
    /\ loadOneAdapter(<<"gov.a.one">>,
                      [i \in DOMAIN ModuleTools(invModule) |->
                          <<ModuleTools(invModule)[i]>>])

\* index.ts 73-78
srv_bootstrap ==
    /\ invBackend = "server"
    /\ bootstrap_flattenTools

\* index.ts 138-151: a tools/call request reaches the running server
srv_tools_call(r, name) ==
    /\ invBackend = "server"
    /\ loadPc = "serving"
    /\ tools_call(r, name)

\* plugin-loader.ts 122: the agent calls the registered declarative tool
ext_decl_execute(params) ==
    /\ invBackend = "declarative"
    /\ decl_execute(params)

InitInvoke ==
    /\ now = 0
    /\ HumanIdle
    /\ WaitIdle
    /\ StorageIdle
    /\ RegIdle
    /\ CallIdle
    /\ PageOpIdle
    /\ CacheIdle
    /\ InitFnIdle
    /\ EquivIdle
    /\ RaceIdle
    /\ CoerceIdle
    /\ navBackend = "extension"
    /\ domains = {<<"a.gov">>}
    /\ navPc = "idle"
    /\ navUrl = Blank
    /\ navWaitSel = FALSE
    /\ pageUrl = Blank
    /\ domTouched = FALSE
    /\ invBackend \in EntryPoints
    /\ dTool \in IF invBackend = "declarative" THEN DeclarativeTools
                 ELSE {NoTool}
    /\ dParams = [a \in ArgNames |-> JsUndefined]
    /\ dPc = "idle"
    /\ dIdx = 0
    /\ dFilled = [i \in DOMAIN InputSelectors |-> JsUndefined]
    /\ dDom = <<>>
    /\ dLog = <<>>
    /\ dResult = NoToolResult
    /\ invModule \in IF invBackend = "declarative" THEN {NoModule}
                     ELSE ModuleShapes
    /\ invArgs \in IF invBackend = "declarative" THEN {[r \in Calls |-> ValidArgs]}
                   ELSE [Calls -> ArgSets]
    /\ invOps = [r \in Calls |-> FALSE]
    /\ harnessBrowser = 0
    /\ harnessLaunches = 0
    /\ playwrightPage = 0
    /\ harnessContext = 0
    /\ harnessAdapter = FALSE
    /\ tPc = [r \in Calls |-> "idle"]
    /\ tName = [r \in Calls |-> ""]
    /\ tCtx = [r \in Calls |-> 0]
    /\ tOutcome = [r \in Calls |-> "none"]
    /\ tResult = [r \in Calls |-> NoToolResult]
    /\ xLoad = "none"
    /\ xTools = <<>>
    /\ xPc = [r \in Calls |-> "idle"]
    /\ xOutcome = [r \in Calls |-> "none"]
    /\ xResult = [r \in Calls |-> NoToolResult]

NextInvoke ==
    \/ \E r \in Calls :
           \/ \E toolName \in {"t", "nope"} : h_testTool(r, toolName)
           \/ h_imported(r)
           \/ h_launched(r)
           \/ h_pageCreated(r)
           \/ h_initDone(r)
           \/ h_find(r)
           \/ \E outcome \in ToolOutcomes : h_settled(r, outcome)
           \/ x_execute(r)
           \/ \E outcome \in ToolOutcomes : x_settled(r, outcome)
           \/ tool_pageOp(r)
           \/ \E name \in {<<"gov.a.one", ".", "t">>, <<"nope">>} :
                  srv_tools_call(r, name)
           \/ getBrowser(r)
           \/ getBrowser_launched(r)
           \/ newContext(r)
           \/ newPage(r)
           \/ execute_call(r)
           \/ \E outcome \in ExecuteOutcomes : execute_settled(r, outcome)
           \/ dispose(r)
           \/ closeContext(r)
    \/ x_loadJavaScriptPlugin
    \/ x_initDone
    \/ srv_loadOneAdapter
    \/ srv_bootstrap
    \/ \E params \in [ArgNames -> ArgValues] : ext_decl_execute(params)
    \/ navigate_load
    \/ \E found \in BOOLEAN : navigate_waitForSelector(found)
    \/ decl_navigated
    \/ \E found \in BOOLEAN : decl_clickFirst(found)
    \/ \E found \in BOOLEAN : decl_fill(found)
    \/ \E found \in BOOLEAN : decl_submit(found)
    \/ \E found \in BOOLEAN : decl_waitForSelector(found)
    \/ \E dom \in [DOMAIN OutputKeys -> Matches] : decl_read(dom)

SpecInvoke == InitInvoke /\ [][NextInvoke]_vars

\* C11: at every entry point (declarative tool, scripted tool of the
\* extension, harness testTool, server tools/call), a call whose tool threw
\* ends with a returned failure result, never with the raw exception.
C11_EveryEntryPointCatchesExceptions ==
    /\ dPc = "returned" => dResult.kind = "returned"
    /\ \A r \in Calls :
           /\ (tPc[r] = "settled" /\ tOutcome[r] = "throw") =>
                  (tResult[r].kind = "returned" /\ ~tResult[r].success)
           /\ (xPc[r] = "returned" /\ xOutcome[r] = "throw") =>
                  (xResult[r].kind = "returned" /\ ~xResult[r].success)
           /\ (callPc[r] \in {"responded", "closed"}
                  /\ callOutcome[r] = "throw") => callResponse[r].isError

\* harness.ts 171 and index.ts 152-158: the page an invocation's context
\* drives (harness: the shared `context`; server: the handler's own page)
PageOf(r) ==
    IF invBackend = "harness" THEN <<"harness", tCtx[r]>>
    ELSE <<"server", r>>

\* the invocation is running and has issued a page operation
Driving(r) ==
    /\ invOps[r]
    /\ tPc[r] = "executing" \/ callPc[r] = "executing"

\* C18: two invocations that are both running and have both issued page
\* operations never drive the same page.
C18_InFlightInvocationsUseDistinctPages ==
    \A r, q \in Calls :
        (r # q /\ Driving(r) /\ Driving(q)) => PageOf(r) # PageOf(q)

\* C19: a tool's execute is never entered with arguments that violate its
\* declared input schema.
C19_ExecuteNeverSeesInvalidArgs ==
    \A r \in Calls :
        (\/ tPc[r] \in {"executing", "settled"}
         \/ xPc[r] \in {"executing", "returned"}
         \/ callInvoked[r]) => ~ViolatesSchema(invArgs[r])

\* C20: in every backend a module without a string id or without a
\* non-empty tools array fails to load: none of its tools is registered or
\* executed and no later load step runs.
C20_MalformedModuleNeverLoads ==
    (invBackend # "declarative"
        /\ ~(invModule.isObject /\ invModule.idIsString
                /\ invModule.tools = "some")) =>
        /\ xLoad # "loaded"
        /\ \A r \in Calls : tPc[r] \in {"idle", "importing", "rejected"}
        /\ initCalls = 0
        /\ regAdapters = <<>>
        /\ regTools = <<>>
        /\ \A r \in Calls : ~callInvoked[r]

\* C30: for type boolean, a text in which an affirmative word is negated
\* ("not eligible", "ineligible") is coerced to false.
C30_NegatedAffirmativeCoercesToFalse ==
    (/\ coType = "boolean"
     /\ coResult # Pending
     /\ ~coRaw.null
     /\ \E i \in 1..(Len(coRaw.s) - 1) :
            /\ coRaw.s[i] \in {"not ", "in"}
            /\ coRaw.s[i + 1] = "eligible") =>
        coResult = JsBoolean(FALSE)

\* C26: the server launches at most one browser, whatever the interleaving
\* of tools/call requests.
C26_AtMostOneBrowserLaunch == launches <= 1

\* C27: a tools/call that opened a browser context and a page has closed
\* both when its response is returned, whether the handler succeeded,
\* returned an error or threw.
C27_ContextAndPageClosedOnEveryPath ==
    \A r \in Calls :
        (callPc[r] = "responded" /\ callPage[r] # "none") =>
            /\ callPage[r] = "closed"
            /\ callCtx[r] = "closed"

\* one request answered after its handler threw, another after it succeeded
C27_Witness ==
    \E r, q \in Calls :
        /\ callPc[r] = "responded" /\ callOutcome[r] = "throw"
        /\ callPage[r] = "closed" /\ callCtx[r] = "closed"
        /\ callPc[q] = "responded" /\ callOutcome[q] = "success"
        /\ callPage[q] = "closed" /\ callCtx[q] = "closed"

\* C25 as stated: in the server's headless mode the wait resolves only on an
\* acknowledgment and rejects only at the timeout, and once it has settled
\* the listener is closed and the timer is cancelled.
C25_SettledMeansListenerClosedAndTimerCancelled ==
    /\ httpSettled = "resolved" => cacked
    /\ httpSettled = "rejected" => now >= httpTimerAt
    /\ httpSettled # "none" => (~httpListening /\ ~httpTimerArmed)

\* C25, amended: the wait settles exactly once (resolved only after a POST
\* /done, rejected only once the timeout is due, and while unsettled the
\* timer is pending); once settled the listener is closed, the timer is
\* cancelled when the server's close event is handled, and within the same
\* wait (cstart unchanged) no later acknowledgment, timer firing or GET
\* changes the outcome.
C25_SettlesExactlyOnce ==
    /\ [](/\ httpSettled = "resolved" => cacked
          /\ httpSettled = "rejected" => now >= httpTimerAt
          /\ (cmode = "serverHeadless" /\ cpc = "waiting"
                 /\ httpSettled = "none") =>
                 (httpTimerArmed /\ now <= httpTimerAt)
          /\ httpSettled # "none" => ~httpListening
          /\ (httpSettled # "none" /\ ~httpClosePending) => ~httpTimerArmed)
    /\ [][/\ (httpSettled # "none" /\ cstart' = cstart) =>
                 httpSettled' = httpSettled
          /\ (httpServed' /\ ~httpServed) => httpSettled' = httpSettled]_vars

\* the timeout rejected the wait and an acknowledgment arrived afterwards
C25_Witness ==
    /\ httpSettled = "rejected"
    /\ cacked
    /\ httpServed

\* ================================= storage.set calls that overlap in time
\* the adapter whose tool calls overlap
RaceId == <<"gov.a.one">>

\* extension sandbox.ts 190-195: set is called and its
\* chrome.storage.local.get(null) resolves with the current contents
ext_set_read(r, k, value) ==
    /\ stBackend = "extension"
    /\ qPc[r] = "idle"
    /\ qKey' = [qKey EXCEPT ![r] = k]
    /\ qValue' = [qValue EXCEPT ![r] = value]
    /\ qUsed' = [qUsed EXCEPT ![r] = extUsedBytes(RaceId)]
    /\ qPc' = [qPc EXCEPT ![r] = "read"]
    /\ UNCHANGED <<qStore, qThrew, qRaced, storageVars, notRaceStorage>>

\* extension sandbox.ts 197-202 with the quota test left out
ext_set_write_unchecked(r) ==
    /\ stBackend = "extension"
    /\ qPc[r] = "read"
    /\ extStore' = [extStore EXCEPT
                       ![pluginStorageKey(RaceId, qKey[r])] = qValue[r]]
    /\ qRaced' = (qRaced \/ \E q \in Calls \ {r} : qPc[q] = "read")
    /\ UNCHANGED qThrew
    /\ qPc' = [qPc EXCEPT ![r] = "done"]
    /\ UNCHANGED <<qKey, qValue, qUsed, qStore, stBackend, srvFiles,
                   harnessMaps, stLast, notRaceStorage>>

\* extension sandbox.ts 197-202: the quota test on the snapshot, then
\* chrome.storage.local.set applies the one key
ext_set_write(r) ==
    /\ stBackend = "extension"
    /\ qPc[r] = "read"
    /\ IF qUsed[r] + jsonByteSize(qValue[r]) > MAX_STORAGE_BYTES
       THEN /\ qThrew' = [qThrew EXCEPT ![r] = TRUE]
            /\ UNCHANGED <<extStore, qRaced>>
       ELSE /\ extStore' = [extStore EXCEPT
                               ![pluginStorageKey(RaceId, qKey[r])] = qValue[r]]
            /\ qRaced' = (qRaced \/ \E q \in Calls \ {r} : qPc[q] = "read")
            /\ UNCHANGED qThrew
    /\ qPc' = [qPc EXCEPT ![r] = "done"]
    /\ UNCHANGED <<qKey, qValue, qUsed, qStore, stBackend, srvFiles,
                   harnessMaps, stLast, notRaceStorage>>

\* mcp-server sandbox.ts 74-75: set is called and readStore resolves with the
\* parsed file
srv_set_read(r, key, value) ==
    /\ stBackend = "server"
    /\ qPc[r] = "idle"
    /\ qKey' = [qKey EXCEPT ![r] = key]
    /\ qValue' = [qValue EXCEPT ![r] = value]
    /\ qStore' = [qStore EXCEPT ![r] = readStore(RaceId)]
    /\ qPc' = [qPc EXCEPT ![r] = "read"]
    /\ UNCHANGED <<qUsed, qThrew, qRaced, storageVars, notRaceStorage>>

\* mcp-server sandbox.ts 76-85: the quota test on the object that was read,
\* then writeStore replaces the file with that object plus the one key
srv_set_write(r) ==
    /\ stBackend = "server"
    /\ qPc[r] = "read"
    /\ LET store == qStore[r]
           existingBytes == SumBytes(store, Present(store) \ {qKey[r]})
       IN  IF existingBytes + jsonByteSize(qValue[r]) > MAX_STORAGE_BYTES
           THEN /\ qThrew' = [qThrew EXCEPT ![r] = TRUE]
                /\ UNCHANGED <<srvFiles, qRaced>>
           ELSE /\ writeStore(RaceId, [store EXCEPT ![qKey[r]] = qValue[r]])
                /\ qRaced' = (qRaced \/ \E q \in Calls \ {r} : qPc[q] = "read")
                /\ UNCHANGED qThrew
    /\ qPc' = [qPc EXCEPT ![r] = "done"]
    /\ UNCHANGED <<qKey, qValue, qUsed, qStore, stBackend, extStore,
                   harnessMaps, stLast, notRaceStorage>>

\* empty storage in the extension or the server, no call started
InitRace ==
    /\ now = 0
    /\ HumanIdle
    /\ WaitIdle
    /\ NavIdle
    /\ RegIdle
    /\ CallIdle
    /\ PageOpIdle
    /\ CacheIdle
    /\ InitFnIdle
    /\ EquivIdle
    /\ InvokeIdle
    /\ DeclIdle
    /\ CoerceIdle
    /\ RaceIdle
    /\ stBackend \in {"extension", "server"}
    /\ extStore = [f \in FullKeys |-> Absent]
    /\ srvFiles = [f \in FileNames |-> EmptyMap]
    /\ harnessMaps = [pl \in InstallableIds |-> EmptyMap]
    /\ stLast = NoCall

NextRace ==
    \E r \in Calls :
        \/ \E k \in Keys, value \in Values :
               \/ ext_set_read(r, k, value)
               \/ srv_set_read(r, k, value)
        \/ ext_set_write(r)
        \/ srv_set_write(r)

SpecRace == InitRace /\ [][NextRace]_vars

\* C23: in the extension every set that was applied passed the quota test
\* on the snapshot it read, and the namespace exceeds the quota only after
\* a write was applied while another set call held an older snapshot.
C23_QuotaExceededOnlyByOverlappingSets ==
    stBackend = "extension" =>
        /\ \A r \in Calls :
               (qPc[r] = "done" /\ ~qThrew[r]) =>
                   qUsed[r] + jsonByteSize(qValue[r]) <= MAX_STORAGE_BYTES
        /\ NamespaceBytes(RaceId) > MAX_STORAGE_BYTES => qRaced

\* two overlapping sets both passed the test, both were applied, and the
\* namespace now holds more than the quota
C23_Witness ==
    /\ stBackend = "extension"
    /\ \E r, q \in Calls :
           /\ r # q
           /\ qPc[r] = "done" /\ ~qThrew[r]
           /\ qPc[q] = "done" /\ ~qThrew[q]
           /\ qUsed[r] = 0 /\ qUsed[q] = 0
    /\ NamespaceBytes(RaceId) > MAX_STORAGE_BYTES

\* C28: in the server, when two set calls of one adapter on different keys
\* have both returned, both keys hold the values written.
C28_ReturnedSetIsNeverLost ==
    stBackend = "server" =>
        \A r, q \in Calls :
            (/\ r # q
             /\ qPc[r] = "done" /\ ~qThrew[r]
             /\ qPc[q] = "done" /\ ~qThrew[q]
             /\ qKey[r] # qKey[q]) =>
                /\ storage_get(RaceId, qKey[r]) = qValue[r]
                /\ storage_get(RaceId, qKey[q]) = qValue[q]

\* ===================== the same storage calls on extension and server
\* the adapter that makes the calls
EquivId == <<"gov.a.one">>

\* extension sandbox.ts 191-199: set throws the quota error
ext_setThrows(pluginId, value) ==
    extUsedBytes(pluginId) + jsonByteSize(value) > MAX_STORAGE_BYTES

\* mcp-server sandbox.ts 75-83: set throws the quota error
srv_setThrows(adapterId, key, value) ==
    LET store == readStore(adapterId)
        existingBytes == SumBytes(store, Present(store) \ {key})
    IN  existingBytes + jsonByteSize(value) > MAX_STORAGE_BYTES

\* storage.set(k, value) in both backends (extension sandbox.ts 190-203,
\* mcp-server sandbox.ts 74-86)
both_set(k, value) ==
    /\ extStore' = IF ext_setThrows(EquivId, value) THEN extStore
                   ELSE [extStore EXCEPT
                            ![pluginStorageKey(EquivId, k)] = value]
    /\ IF srv_setThrows(EquivId, k, value) THEN UNCHANGED srvFiles
       ELSE writeStore(EquivId, [readStore(EquivId) EXCEPT ![k] = value])
    /\ eqExt' = Observation("set", ext_setThrows(EquivId, value), Absent)
    /\ eqSrv' = Observation("set", srv_setThrows(EquivId, k, value), Absent)
    /\ UNCHANGED <<stBackend, harnessMaps, stLast, notEquivStorage>>

\* storage.get(k) in both backends (extension sandbox.ts 185-188,
\* mcp-server sandbox.ts 69-72)
both_get(k) ==
    /\ eqExt' = Observation("get", FALSE,
                            extStore[pluginStorageKey(EquivId, k)])
    /\ eqSrv' = Observation("get", FALSE, readStore(EquivId)[k])
    /\ UNCHANGED <<storageVars, notEquivStorage>>

\* storage.delete(k) in both backends (extension sandbox.ts 205-207,
\* mcp-server sandbox.ts 88-92)
both_delete(k) ==
    /\ extStore' = [extStore EXCEPT ![pluginStorageKey(EquivId, k)] = Absent]
    /\ writeStore(EquivId, [readStore(EquivId) EXCEPT ![k] = Absent])
    /\ eqExt' = Observation("delete", FALSE, Absent)
    /\ eqSrv' = Observation("delete", FALSE, Absent)
    /\ UNCHANGED <<stBackend, harnessMaps, stLast, notEquivStorage>>

\* storage.clear() in both backends (extension sandbox.ts 209-216,
\* mcp-server sandbox.ts 94-96)
both_clear ==
    /\ LET prefix == <<"civic-mcp:plugin:">> \o EquivId \o <<":">>
           toRemove == {ek \in Present(extStore) : startsWith(ek, prefix)}
       IN  extStore' = [ek \in FullKeys |->
                           IF ek \in toRemove THEN Absent ELSE extStore[ek]]
    /\ writeStore(EquivId, EmptyMap)
    /\ eqExt' = Observation("clear", FALSE, Absent)
    /\ eqSrv' = Observation("clear", FALSE, Absent)
    /\ UNCHANGED <<stBackend, harnessMaps, stLast, notEquivStorage>>

\* both backends start from empty storage
InitEquiv ==
    /\ now = 0
    /\ HumanIdle
    /\ WaitIdle
    /\ NavIdle
    /\ StorageIdle
    /\ RegIdle
    /\ CallIdle
    /\ PageOpIdle
    /\ CacheIdle
    /\ InitFnIdle
    /\ InvokeIdle
    /\ DeclIdle
    /\ CoerceIdle
    /\ RaceIdle
    /\ EquivIdle

NextEquiv ==
    \/ \E k \in Keys, value \in Values : both_set(k, value)
    \/ \E k \in Keys : both_get(k)
    \/ \E k \in Keys : both_delete(k)
    \/ both_clear

SpecEquiv == InitEquiv /\ [][NextEquiv]_vars

\* C22: after the same sequence of set, get, delete and clear calls from
\* empty storage, the extension and the server gave the same answer to
\* the last call: the same returned value and, for a set, the same
\* accept/reject decision.
C22_ExtensionAndServerStorageAgree == eqExt = eqSrv

\* C21: in every backend that loads a scripted adapter, init is called at
\* most once, and whenever one of the adapter's tool handlers has been
\* entered init had been called once and had completed.
C21_InitOnceBeforeAnyHandler ==
    invBackend \in {"scripted", "harness", "server"} =>
        /\ initCalls <= 1
        /\ \A r \in Calls :
               (\/ tPc[r] \in {"executing", "settled"}
                \/ xPc[r] \in {"executing", "returned"}
                \/ callInvoked[r]) => (initCalls = 1 /\ initDone = 1)

\* ==================================== tools that cache their results
TickHours == 24        \* hours per step of the cache clock
MaxHours == 96         \* the cache clock stops here

\* gov.ssa.retirement adapter.ts 152: `ageHours < 72`
SSA_TTL_HOURS == 72
\* gov.california.getcalfresh adapter.ts 102: `age < 24 * 60 * 60 * 1000`
CALFRESH_TTL_HOURS == 24

CachingTools == {"estimate_retirement_benefit", "check_eligibility"}

\* the params objects callers pass; "undefined" is an omitted dollarType,
\* plannedRetirementYear 0 an omitted year
ToolParams(tool) ==
    IF tool = "estimate_retirement_benefit"
    THEN [birthYear : {1975}, currentAnnualEarnings : {65000},
          plannedRetirementYear : {0, 2040},
          dollarType : {"undefined", "today", "future"}]
    ELSE [zipCode : {95814}, householdSize : {1, 3},
          monthlyGrossIncome : {2500}, hasElderly : BOOLEAN]

\* adapter.ts 133-135: the inputs after the handler's defaults (`?? 'today'`)
EffectiveParams(tool, params) ==
    IF tool = "estimate_retirement_benefit"
    THEN [params EXCEPT !.dollarType =
              IF @ = "undefined" THEN "today" ELSE @]
    ELSE params

\* gov.ssa.retirement adapter.ts 139-148 and gov.california.getcalfresh
\* adapter.ts 98: the cache key, a ':'-joined string
cacheKey(tool, params) ==
    IF tool = "estimate_retirement_benefit"
    THEN <<"estimate", ":">> \o NatToString(params.birthYear)
         \o <<":", "6", ":", "1", "5", ":">>
         \o NatToString(params.currentAnnualEarnings)
         \o <<":", ":", ":", ":">>
         \o (IF params.plannedRetirementYear = 0 THEN <<>>
             ELSE NatToString(params.plannedRetirementYear))
         \o <<":", EffectiveParams(tool, params).dollarType>>
    ELSE <<"eligibility", ":">> \o NatToString(params.zipCode)
         \o <<":">> \o NatToString(params.householdSize)
         \o <<":">> \o NatToString(params.monthlyGrossIncome)

CacheKeysOf(tool) == {cacheKey(tool, p) : p \in ToolParams(tool)}

\* no entry under a key: storage.get gives null
NoEntry(tool) ==
    [present |-> FALSE, at |-> 0,
     data |-> CHOOSE p \in ToolParams(tool) : TRUE]

\* adapter.ts 152, calfresh adapter.ts 102
Ttl(tool) ==
    IF tool = "estimate_retirement_benefit" THEN SSA_TTL_HOURS
    ELSE CALFRESH_TTL_HOURS

\* gov.ssa.retirement adapter.ts 137-256 and gov.california.getcalfresh
\* adapter.ts 97-185: one call of the tool. The data scraped for a set of
\* inputs is identified with those inputs (after defaults); pageOk is
\* whether navigation and every page step succeeded.
cached_execute(params, pageOk) ==
    /\ kTool \in CachingTools
    /\ params \in ToolParams(kTool)
    /\ LET key == cacheKey(kTool, params)
           cached == kStore[key]
           fresh == cached.present /\ kHours - cached.at < Ttl(kTool)
       IN  IF fresh
           THEN /\ kLast' = [params |-> params, fromCache |-> TRUE,
                             navigated |-> FALSE, success |-> TRUE,
                             data |-> cached.data, age |-> kHours - cached.at,
                             stored |-> FALSE]
                /\ UNCHANGED kStore
           ELSE IF pageOk
           THEN /\ kStore' = [kStore EXCEPT ![key] =
                                 [present |-> TRUE, at |-> kHours,
                                  data |-> EffectiveParams(kTool, params)]]
                /\ kLast' = [params |-> params, fromCache |-> FALSE,
                             navigated |-> TRUE, success |-> TRUE,
                             data |-> EffectiveParams(kTool, params),
                             age |-> 0, stored |-> TRUE]
           ELSE /\ kLast' = [params |-> params, fromCache |-> FALSE,
                             navigated |-> TRUE, success |-> FALSE,
                             data |-> NoEntry(kTool).data, age |-> 0,
                             stored |-> FALSE]
                /\ UNCHANGED kStore
    /\ UNCHANGED <<kTool, kHours, notCache>>

\* time passes between calls
TickCache ==
    /\ kTool \in CachingTools
    /\ kHours + TickHours <= MaxHours
    /\ kHours' = kHours + TickHours
    /\ UNCHANGED <<kTool, kStore, kLast, notCache>>

\* one of the two tools, empty storage, no call made yet
InitCache ==
    /\ now = 0
    /\ HumanIdle
    /\ WaitIdle
    /\ NavIdle
    /\ StorageIdle
    /\ RegIdle
    /\ CallIdle
    /\ PageOpIdle
    /\ InvokeIdle
    /\ DeclIdle
    /\ CoerceIdle
    /\ RaceIdle
    /\ EquivIdle
    /\ InitFnIdle
    /\ kTool \in CachingTools
    /\ kStore = [key \in CacheKeysOf(kTool) |-> NoEntry(kTool)]
    /\ kHours = 0
    /\ kLast = [params |-> NoEntry(kTool).data, fromCache |-> FALSE,
                navigated |-> FALSE, success |-> FALSE,
                data |-> NoEntry(kTool).data, age |-> 0, stored |-> FALSE]

NextCache ==
    \/ \E pageOk \in BOOLEAN :
           \E params \in UNION {ToolParams(tool) : tool \in CachingTools} :
               cached_execute(params, pageOk)
    \/ TickCache

SpecCache == InitCache /\ [][NextCache]_vars

\* C24: a call answered from the cache did not navigate, and the entry it
\* was answered with was younger than the time-to-live and was stored by a
\* successful call with the same inputs; a failed call stores nothing.
C24_CacheAnswersOnlyEqualInputs ==
    kTool \in CachingTools =>
        /\ kLast.fromCache =>
               /\ ~kLast.navigated
               /\ kLast.age < Ttl(kTool)
               /\ kLast.data = EffectiveParams(kTool, kLast.params)
        /\ ~kLast.success => ~kLast.stored

\* ============================ capability calls after the page has moved
\* where a click or a redirect can take the page: a document on the
\* allow-listed host or on another host
PageTargets == {u \in Urls : u.parses /\ u.pathname = <<"/">>}

\* the capability calls that read from or write to the page
PageOps == {"fillField", "selectOption", "getText", "getValue"}

\* the document changes to `target`. In the extension the adapter lives in
\* the document's content script: the new document gets the adapter only if
\* initPluginLoader finds its URL allowed (plugin-loader.ts 43-54); the
\* Playwright page of harness and server keeps its page API
page_moves(target) ==
    /\ pageUrl' = target
    /\ pAlive' = IF navBackend = "extension"
                 THEN isUrlAllowed(target, domains) ELSE pAlive

\* extension sandbox.ts 103-110, harness.ts 222-229, mcp-server sandbox.ts
\* 226-233: click acts on the current page, which may then load `target`
page_click(navigates, target) ==
    /\ navPc = "done"
    /\ pAlive
    /\ pLast' = [op |-> "click", url |-> pageUrl]
    /\ IF navigates THEN page_moves(target)
       ELSE UNCHANGED <<pageUrl, pAlive>>
    /\ UNCHANGED <<navBackend, domains, navPc, navUrl, navWaitSel, domTouched,
                   notPageNav>>

\* the page redirects by itself
page_redirect(target) ==
    /\ navPc = "done"
    /\ page_moves(target)
    /\ UNCHANGED <<pLast, navBackend, domains, navPc, navUrl, navWaitSel,
                   domTouched, notPageNav>>

\* extension sandbox.ts 65-124, harness.ts 212-247, mcp-server sandbox.ts
\* 215-248: fillField, selectOption, getText and getValue go straight to
\* the current page
page_op(op) ==
    /\ navPc = "done"
    /\ pAlive
    /\ pLast' = [op |-> op, url |-> pageUrl]
    /\ UNCHANGED <<pAlive, navVars, notPageNav>>

\* extension sandbox.ts 54-63: navigate can only be called while the
\* adapter's runtime exists
page_extension_navigate(url, waitForSelector) ==
    /\ pAlive
    /\ extension_navigate(url, waitForSelector)

\* an adapter allowed on a.gov, in one of the three backends
InitPage ==
    /\ now = 0
    /\ HumanIdle
    /\ WaitIdle
    /\ StorageIdle
    /\ RegIdle
    /\ CallIdle
    /\ InvokeIdle
    /\ DeclIdle
    /\ CoerceIdle
    /\ RaceIdle
    /\ EquivIdle
    /\ InitFnIdle
    /\ CacheIdle
    /\ PageOpIdle
    /\ navBackend \in Backends
    /\ domains = {<<"a.gov">>}
    /\ navPc = "idle"
    /\ navUrl = Blank
    /\ navWaitSel = FALSE
    /\ pageUrl = Blank
    /\ domTouched = FALSE

NextPage ==
    \/ \E url \in PageTargets, w \in BOOLEAN :
           page_extension_navigate(url, w)
    \/ \E url \in PageTargets, w \in BOOLEAN : harness_navigate(url, w)
    \/ \E url \in PageTargets, w \in BOOLEAN : server_navigate(url, w)
    \/ navigate_load
    \/ \E found \in BOOLEAN : navigate_waitForSelector(found)
    \/ \E navigates \in BOOLEAN, target \in PageTargets :
           page_click(navigates, target)
    \/ \E target \in PageTargets : page_redirect(target)
    \/ \E op \in PageOps : page_op(op)

SpecPage == InitPage /\ [][NextPage]_vars

\* C29: every page-affecting capability call acted on a page whose URL the
\* adapter's allow-list matches.
C29_CapabilityCallsOnlyOnAllowedPages ==
    pLast.op # "none" => isUrlAllowed(pLast.url, domains)

====
